---- MODULE Spec2Model ----
(***************************************************************************)
(* NeuroNest telemetry pipeline: the polling Device Link Manager           *)
(* (ESP32WiFiService), and the orchestrator's data handler                 *)
(* (WearableContext.handleSensorData) over the History Store               *)
(* (StorageService).                                                       *)
(*                                                                         *)
(* Spec      the link manager: connect / probe, the polling timer, the     *)
(*           fetches in flight, the failure counter, disconnect.           *)
(* PipeSpec  the orchestrator's asynchronous data handler.                 *)
(***************************************************************************)
EXTENDS Integers, Sequences, FiniteSets, TLC

VARIABLES
  \* ---- ESP32WiFiService fields ----
  phase,                  \* "constructed" | "initialized" | "wired" (callbacks registered)
  pollingRate,            \* this.pollingRate (ms)
  maxConsecutiveFailures, \* this.maxConsecutiveFailures
  deviceIP,               \* this.deviceIP, NoIP for null
  isConnected,            \* this.isConnected
  pollingInterval,        \* this.pollingInterval: a timer handle, NoTimer for null
  consecutiveFailures,    \* this.consecutiveFailures
  deviceInfo,             \* this.deviceInfo: "null" | "data" | "default"
  \* ---- the JavaScript runtime around the service ----
  activeTimers,           \* interval timers that are set and not cleared
  inflight,               \* fetches awaiting their response: target address -> count
  connPc,                 \* connect(): "idle" | "saving" (awaits updateESP32Config) | "probing"
  probeTarget,            \* the address the probe request in flight was sent to
  probed,                 \* endpoints requested by the running / last connect(), in order
  \* ---- history of the run (read by the properties only) ----
  failRun,                \* failed polls handled since the last successful poll
  session,                \* a connect() has succeeded
  lostErrors,             \* 'Lost connection' errors raised since the last successful connect()
  last,                   \* the last handler step: what ran, what it emitted, what it saw
  \* ---- the orchestrator (WearableContext), the classifier's window, the store ----
  arrived,                \* readings handed to handleSensorData so far; the n-th has id n
  handlers,               \* id -> the handleSensorData invocation for that reading
  sensorData,             \* the orchestrator's current reading (0: DEFAULT_SENSOR_DATA)
  prediction,             \* the orchestrator's current prediction
  mlHistory,              \* MLModelService.predictionHistory: the unsmoothed states
  storedReadings,         \* AsyncStorage neuronest_sensor_readings: reading ids
  storedPredictions,      \* AsyncStorage neuronest_predictions_history
  storedEpisodes,         \* AsyncStorage neuronest_stress_episodes
  lastPredict,            \* the last predict() call: its reading, its results, the window after it
  \* ---- the orchestrator's mock data stream ----
  mockTimers,             \* the mock interval timers the runtime holds
  predictionIntervalRef,  \* the handle in predictionIntervalRef.current, or NoTimer
  ctxIsConnected,         \* the orchestrator's isConnected
  connectedDevice,        \* the orchestrator's connectedDevice id, or "null"
  synthetic,              \* ids of the readings the mock stream produced
  \* ---- the store used alone ----
  storeLog,               \* what the sequential store runs appended, oldest first
  \* ---- the conditioner's state (ESP32WiFiService.parseSensorData) ----
  hrBuffer,               \* this.hrBuffer: recent raw heart rates, oldest first
  edaBuffer,              \* this.edaBuffer: recent raw EDA values, oldest first
  prevAccelMag,           \* this.prevAccelMag, NoAccelMag for null
  lastParse,              \* the last parseSensorData call: its payload, the buffer before, its result
  \* ---- the screens and collaborators around the pipeline ----
  weeklyData,             \* WeeklyHistory's weeklyData: the day summaries shown, oldest first
  lastScore,              \* the last two predictWithRules calls: reading and stressScore, newest last
  ble,                    \* the BLE link manager (ESP32BLEService) and its device
  cfg,                    \* ConfigManager: this.config.esp32, what AsyncStorage holds, the last call
  bleParse                \* the last ESP32BLEService.parseSensorData call: its payload and its result

linkVars == <<phase, pollingRate, maxConsecutiveFailures, deviceIP, isConnected,
              pollingInterval, consecutiveFailures, deviceInfo, activeTimers,
              inflight, connPc, probeTarget, probed, failRun, session, lostErrors, last>>

mockVars == <<mockTimers, predictionIntervalRef, ctxIsConnected, connectedDevice>>

pipeVars == <<arrived, handlers, sensorData, prediction, mlHistory, storedReadings,
              storedPredictions, storedEpisodes, lastPredict, mockVars, synthetic,
              storeLog>>

condVars == <<hrBuffer, edaBuffer, prevAccelMag, lastParse>>

appVars == <<weeklyData, lastScore, ble, cfg, bleParse>>

\* what the data handler, the classifier and the store never write
envVars == <<linkVars, mockVars, storeLog, condVars, appVars>>

vars == <<linkVars, pipeVars, condVars, appVars>>

-----------------------------------------------------------------------------
\* Bounds of the model

\* interval timers the runtime can hold at once
MaxTimers == 2
\* fetches that can be awaiting a response at once
MaxInFlight == 2
\* where the count of 'Lost connection' errors of one session stops counting
MaxLostCount == 2
\* readings handed to the orchestrator's data handler in one run
MaxReadings == 2
\* mock interval timers the runtime can hold at once
MaxMockTimers == 2
\* appends made in one sequential store run, after the history it starts from
MaxAppends == 3

-----------------------------------------------------------------------------
\* Program constants

DEFAULT_MAX_FAILURES == 5
DEFAULT_POLLING_RATE == 2000

NoIP == "null"
NoTimer == 0
Addrs == {"192.168.1.100"}
Targets == Addrs \cup {NoIP}
TimerIds == 1..MaxTimers

\* values the configuration collaborator can hold (CONFIGURATION.md)
PollingRates == {1000, 2000}
FailureThresholds == {1, 3, 5}

\* testConnection's candidate endpoints, in order
Endpoints == <<"/api/sensors", "/api/device-info", "/api/health", "/">>

\* What one axios.get of the probe can end in: a 2xx response with a body, a 2xx
\* response with an empty body, a response with an error status, or no response:
\* a timeout, React Native's "Network Error", a refused connection, another
\* error, an error without a message.
Responses == {"ok", "okEmpty", "httpError"}
NoResponses == {"timeout", "network", "refused", "other", "nomessage"}
ProbeOutcomes == Responses \cup NoResponses

\* axios error fields
ErrCode(e) == IF e = "timeout" THEN "ECONNABORTED"
              ELSE IF e = "refused" THEN "ECONNREFUSED" ELSE "none"
ErrMessage(e) == CASE e = "timeout" -> "timeout of 5000ms exceeded"
                   [] e = "network" -> "Network Error"
                   [] e = "refused" -> "connect ECONNREFUSED"
                   [] e = "other" -> "Request aborted"
                   [] OTHER -> ""

MsgTimeout == "Connection timeout - check IP address and that your phone is on the same WiFi as the ESP32"
MsgNetwork == "Network error - make sure your phone and ESP32 are on the same WiFi network"
MsgVerify == "Cannot reach ESP32 - verify the IP address and WiFi network"
MsgCannotReach == "Cannot reach ESP32. Ensure your phone and ESP32 are on the same WiFi network, and the IP address is correct."
MsgFailed == "Failed to connect to ESP32"
MsgNoResponse == "No response from device"
MsgLost == "Lost connection to ESP32 device"

\* String.prototype.includes is case sensitive: of the messages above only
\* axios' own "Network Error" holds 'Network Error', and only the refused
\* connection's holds 'ECONNREFUSED'.
IncludesNetworkError(m) == m = "Network Error"
IncludesECONNREFUSED(m) == m = "connect ECONNREFUSED"

-----------------------------------------------------------------------------
\* Helpers

Min(a, b) == IF a <= b THEN a ELSE b

\* the number of fetches awaiting their response
InFlightCount ==
  LET Sum[T \in SUBSET Targets] ==
        IF T = {} THEN 0
        ELSE LET x == CHOOSE y \in T : TRUE IN inflight[x] + Sum[T \ {x}]
  IN Sum[Targets]

\* The callbacks are registered together (WearableContext.initializeServices);
\* before that `if (this.onX)` skips every notification.
Emit(evs) == IF phase = "wired" THEN evs ELSE <<>>

\* The record of one handler step: what ran, the callbacks it invoked in order,
\* its result and error message, the probe outcome it handled and how many
\* candidates had been requested, and the link state and counter it started from
\* (preOp: for disconnect(), the step that ran before it).
Step(op, emitted, result, error, probe) ==
  [op |-> op, emitted |-> emitted, result |-> result, error |-> error, probe |-> probe,
   probes |-> Len(probed), preOp |-> "none", preConnected |-> isConnected,
   preFailures |-> consecutiveFailures, preTimer |-> pollingInterval]

\* The record of a step that reads neither the link state nor the counter.
Plain(op) ==
  [op |-> op, emitted |-> <<>>, result |-> "none", error |-> "", probe |-> "none",
   probes |-> 0, preOp |-> "none", preConnected |-> FALSE, preFailures |-> 0,
   preTimer |-> NoTimer]

-----------------------------------------------------------------------------
\* Timers: setInterval / clearInterval

\* A handle no active timer has; the smallest, as only identity matters.
FreshTimer(timers) ==
  CHOOSE t \in TimerIds : t \notin timers /\ \A u \in TimerIds : u \notin timers => t <= u

\* stopPolling: clearInterval(this.pollingInterval) if one is set
TimersAfterStop(timers, h) == IF h # NoTimer THEN timers \ {h} ELSE timers

StartPolling_NoClear(timers, h) ==
  [timers |-> timers \cup {FreshTimer(timers)}, handle |-> FreshTimer(timers)]

\* startPolling: clear the existing timer, then setInterval
StartPollingResult(timers, h) ==
  LET cleared == IF h # NoTimer THEN timers \ {h} ELSE timers
  IN [timers |-> cleared \cup {FreshTimer(cleared)}, handle |-> FreshTimer(cleared)]

CanSetTimer == Cardinality(activeTimers) < MaxTimers

-----------------------------------------------------------------------------
\* testConnection / connect: what a probe's outcome means

TestReachable_OnlySuccess(outcome) == outcome \in {"ok", "okEmpty"}

\* testConnection returns on any response: a 2xx, or an error that carries a response
TestReachable(outcome) == outcome \in Responses

\* what testConnection returns for a response: response.data, or the default object
\* when the body is empty or the response is an error status
TestConnectionInfo(outcome) == IF outcome = "ok" THEN "data" ELSE "default"

\* the error testConnection throws after the last candidate failed; e is its
\* lastError, the error of the last candidate requested
TestConnectionError(e) ==
  IF ErrCode(e) = "ECONNABORTED" THEN MsgTimeout
  ELSE IF IncludesNetworkError(ErrMessage(e)) THEN MsgNetwork
  ELSE IF ErrMessage(e) # "" THEN ErrMessage(e)
  ELSE MsgVerify

\* connect's catch: the message it returns for a thrown error
ConnectErrorMsg(m) ==
  LET msg == IF m # "" THEN m ELSE MsgFailed
  IN IF IncludesNetworkError(msg) \/ IncludesECONNREFUSED(msg) THEN MsgCannotReach ELSE msg

\* ---- orchestrator, classifier window and store ----
ReadingIds == 1..MaxReadings
SMOOTHING_WINDOW == 5
MAX_STORED_READINGS == 1000
MAX_STORED_PREDICTIONS == 500
MAX_STORED_EPISODES == 200

\* Numbers of the classifier.  Heart rate in bpm and EDA in microsiemens are
\* whole numbers here; temperature is in tenths of a degree; a stress score is
\* in hundredths; a confidence is in units of 1/ConfDen, a unit in which the
\* mean of up to SMOOTHING_WINDOW confidences is a whole number.
ConfDen == 600000
ConfStep == 60      \* 0.0001 in confidence units
DEFAULT_TEMPERATURE == 365
HR_MIN_VALID == 40
HR_MAX_VALID == 200

\* What a field of a reading can hold besides a number: NaN, whose typeof is
\* 'number' and which makes every comparison false and every sum NaN; and a
\* value whose typeof is not 'number' (a string, undefined, null).  Both stand
\* below every number of the model.
NotANumber == -999999
NonNumber == -999998

IsNaN(v) == v = NotANumber
TypeofNumber(v) == v # NonNumber

DEFAULT_PREDICTION == [reading |-> 0, state |-> "Unknown", confidence |-> 0]
NoReading == [heartRate |-> 0, temperature |-> 0, eda |-> 0, fingerDetected |-> FALSE]
NoResult == [state |-> "Unknown", confidence |-> 0]
IdleHandler == [pc |-> "none", data |-> NoReading, buf |-> <<>>, out |-> NoResult]

\* a trim that keeps the oldest entries instead
SliceLast_KeepFirst(seq, n) ==
  IF Len(seq) <= n THEN seq ELSE SubSeq(seq, 1, n)

\* Array.prototype.slice(-n): the last n elements
SliceLast(seq, n) ==
  IF Len(seq) <= n THEN seq ELSE SubSeq(seq, Len(seq) - n + 1, Len(seq))

\* predictWithRules: the threshold indicators
Indicators(hr, temp, eda) ==
  [hrElevated |-> hr >= 120, hrHigh |-> hr >= 140, hrCritical |-> hr >= 160,
   tempElevated |-> temp >= 380, tempHigh |-> temp >= 388,
   edaElevated |-> eda >= 8, edaHigh |-> eda >= 12, edaCritical |-> eda >= 18]

\* predictWithRules: combinedDeviation, times 150
\*   ((hr-75)/15)*0.4 + ((eda-2)/1.5)*0.4 + ((temp-36.5)/0.5)*0.2
CombinedDeviation150(hr, temp, eda) ==
  4 * (hr - 75) + 4 * (10 * eda - 20) + 6 * (temp - 365)

\* an accumulator whose second heart-rate tier adds less than the first
StressScore_HighBelowElevated(hr, temp, eda) ==
  LET ind == Indicators(hr, temp, eda)
      dev == CombinedDeviation150(hr, temp, eda)
  IN (IF ind.hrCritical THEN 40 ELSE IF ind.hrHigh THEN 8
        ELSE IF ind.hrElevated THEN 10 ELSE 0)
     + (IF ind.edaCritical THEN 40 ELSE IF ind.edaHigh THEN 24
        ELSE IF ind.edaElevated THEN 8 ELSE 0)
     + (IF ind.tempHigh THEN 20 ELSE IF ind.tempElevated THEN 6 ELSE 0)
     + (IF dev > 525 THEN 8 ELSE 0)
     + (IF dev > 750 THEN 8 ELSE 0)

\* predictWithRules: the weighted stress accumulator, in hundredths
StressScore(hr, temp, eda) ==
  LET ind == Indicators(hr, temp, eda)
      dev == CombinedDeviation150(hr, temp, eda)
  IN (IF ind.hrCritical THEN 40 ELSE IF ind.hrHigh THEN 28
        ELSE IF ind.hrElevated THEN 10 ELSE 0)
     + (IF ind.edaCritical THEN 40 ELSE IF ind.edaHigh THEN 24
        ELSE IF ind.edaElevated THEN 8 ELSE 0)
     + (IF ind.tempHigh THEN 20 ELSE IF ind.tempElevated THEN 6 ELSE 0)
     + (IF dev > 525 THEN 8 ELSE 0)
     + (IF dev > 750 THEN 8 ELSE 0)

\* Math.min(0.98, Math.max(0.40, confidence)); NaN stays NaN
ClampConfidence(c) ==
  IF IsNaN(c) THEN NotANumber
  ELSE IF c > 9800 * ConfStep THEN 9800 * ConfStep
  ELSE IF c < 4000 * ConfStep THEN 4000 * ConfStep ELSE c

\* predictWithRules(sensorData): the unsmoothed result.  With a NaN heart rate
\* or EDA the indicators of that field and the deviation tests are false, and
\* microNoise, which enters the Calm confidence, is NaN.
PredictWithRules(hr, temp, eda) ==
  LET ind == Indicators(hr, temp, eda)
      score == StressScore(hr, temp, eda)
      nan == IsNaN(hr) \/ IsNaN(eda)
      microNoise == IF nan THEN 0 ELSE (hr * 7 + eda * 13) % 100
      both == (ind.hrCritical \/ ind.hrHigh) /\ (ind.edaCritical \/ ind.edaHigh)
      state == IF score >= 72 THEN (IF both THEN "Meltdown" ELSE "Stressed")
               ELSE IF score >= 50 THEN "Stressed" ELSE "Calm"
      conf == IF score >= 72
                THEN (IF both
                        THEN (IF 7800 + 15 * score > 9500 THEN 9500 ELSE 7800 + 15 * score)
                        ELSE 6800 + 12 * score)
              ELSE IF score >= 50 THEN 5800 + 25 * score
              ELSE 8200 + 30 * (50 - score) + microNoise
  IN [state |-> state,
      confidence |-> IF nan /\ state = "Calm" THEN NotANumber
                     ELSE ClampConfidence(conf * ConfStep),
      stressScore |-> score, indicators |-> ind]

\* predict(): push onto predictionHistory, shift when longer than the window
PushWindow(hist, st) ==
  LET pushed == Append(hist, st)
  IN IF Len(pushed) > SMOOTHING_WINDOW THEN Tail(pushed) ELSE pushed

CountOf(hist, st) == Cardinality({i \in 1..Len(hist) : hist[i].state = st})

FirstIndexOf(hist, st) == CHOOSE i \in 1..Len(hist) :
                            hist[i].state = st /\ \A j \in 1..(i - 1) : hist[j].state # st

RECURSIVE TotalConfidence(_)
TotalConfidence(hist) ==
  IF hist = <<>> THEN 0
  ELSE IF IsNaN(Head(hist).confidence) \/ IsNaN(TotalConfidence(Tail(hist)))
    THEN NotANumber
  ELSE Head(hist).confidence + TotalConfidence(Tail(hist))

\* smoothPrediction: the state with the highest count in the window; the
\* loop over Object.entries(stateCounts) starts from maxCount = 0 and replaces
\* on a strictly greater count, so among states of equal count the one met
\* first in the window is kept
DominantState(hist) ==
  CHOOSE st \in {hist[i].state : i \in 1..Len(hist)} :
    \A other \in {hist[i].state : i \in 1..Len(hist)} :
       \/ CountOf(hist, st) > CountOf(hist, other)
       \/ /\ CountOf(hist, st) = CountOf(hist, other)
          /\ FirstIndexOf(hist, st) <= FirstIndexOf(hist, other)

\* smoothPrediction(currentPrediction), predictionHistory being hist
SmoothPrediction(hist, current) ==
  IF Len(hist) < 2
    THEN [state |-> current.state, confidence |-> current.confidence]
    ELSE [state |-> DominantState(hist),
          confidence |-> IF IsNaN(TotalConfidence(hist)) THEN NotANumber
                         ELSE TotalConfidence(hist) \div Len(hist)]

\* predict(sensorData): the window after the call, the unsmoothed result, the
\* result returned, and whether the reading was accepted
Predict(hist, data) ==
  LET temp == IF TypeofNumber(data.temperature) /\ ~IsNaN(data.temperature)
                   /\ data.temperature > 0
                THEN data.temperature ELSE DEFAULT_TEMPERATURE
      thrown == ~TypeofNumber(data.heartRate) \/ ~TypeofNumber(data.eda)
      outOfRange == /\ ~IsNaN(data.heartRate)
                    /\ (data.heartRate < HR_MIN_VALID \/ data.heartRate > HR_MAX_VALID)
  IN IF thrown \/ outOfRange
       THEN [history |-> hist, accepted |-> FALSE, raw |-> NoResult, result |-> NoResult]
       ELSE LET rule == PredictWithRules(data.heartRate, temp, data.eda)
                window == PushWindow(hist, [state |-> rule.state,
                                            confidence |-> rule.confidence])
            IN [history |-> window, accepted |-> TRUE,
                raw |-> [state |-> rule.state, confidence |-> rule.confidence],
                result |-> SmoothPrediction(window, rule)]

\* the record of a predict() call
PredictCallRecord(data, p) ==
  [called |-> TRUE, data |-> data, accepted |-> p.accepted, raw |-> p.raw,
   result |-> p.result, window |-> p.history]

NoPredict == [called |-> FALSE, data |-> NoReading, accepted |-> FALSE, raw |-> NoResult,
              result |-> NoResult, window |-> <<>>]

\* conditioned readings handed to the orchestrator in the handler runs: no
\* finger; a calm one; one with critical EDA and high temperature
PipeReadings ==
  { NoReading,
    [heartRate |-> 70, temperature |-> 365, eda |-> 2, fingerDetected |-> TRUE],
    [heartRate |-> 100, temperature |-> 390, eda |-> 19, fingerDetected |-> TRUE] }

-----------------------------------------------------------------------------
\* The sensor conditioner (ESP32WiFiService.parseSensorData).  Heart rates are
\* in beats per minute, EDA in hundredths of a microsiemens, temperatures in
\* tenths of a degree, accelerations in thousandths of g, rotation in degrees
\* per second.  A payload is the JSON body of /api/sensors; a field the device
\* did not send is NoField (a flag: "none").

IR_THRESHOLD == 50000
HR_SMOOTHING_WINDOW == 6
HR_DISPLAY_MIN == 60
HR_DISPLAY_MAX == 100
HR_MAX_JUMP == 25
ACCEL_DEVIATION == 150
ACCEL_JERK == 120
GYRO_MOTION_THRESHOLD == 30
NoField == -1
NoAccelMag == -1

Max(a, b) == IF a >= b THEN a ELSE b
Abs(a) == IF a >= 0 THEN a ELSE 0 - a

RECURSIVE SumSeq(_)
SumSeq(seq) == IF seq = <<>> THEN 0 ELSE Head(seq) + SumSeq(Tail(seq))

\* the sum of v * (i + 1) over the buffer, i counted from 0
RECURSIVE WeightedSum(_, _)
WeightedSum(seq, n) == IF n = 0 THEN 0 ELSE seq[n] * n + WeightedSum(seq, n - 1)

\* a quotient of naturals rounded to the nearest whole number, halves upwards
RoundDiv(a, b) == (2 * a + b) \div (2 * b)

\* Math.sqrt of a sum of squares; the payloads carry vectors of whole magnitude
Magnitude(v) ==
  LET sq == v[1] * v[1] + v[2] * v[2] + v[3] * v[3]
      longest == Max(Abs(v[1]), Max(Abs(v[2]), Abs(v[3])))
  IN CHOOSE r \in longest..(Abs(v[1]) + Abs(v[2]) + Abs(v[3])) : r * r = sq

\* a detection in which a heart rate out of range overrules the flag and the IR value
FingerDetected_HeartRateVeto(raw) ==
  /\ raw.heartRate >= 40 /\ raw.heartRate <= 200
  /\ IF raw.finger # "none" THEN raw.finger = "yes"
     ELSE IF raw.ir # NoField THEN raw.ir > IR_THRESHOLD
     ELSE TRUE

\* finger detection: the explicit flag, else the IR value, else the heart rate
FingerDetected(raw) ==
  IF raw.finger # "none" THEN raw.finger = "yes"
  ELSE IF raw.ir # NoField THEN raw.ir > IR_THRESHOLD
  ELSE raw.heartRate >= 40 /\ raw.heartRate <= 200

\* a buffer holding NaN: its sums and means are NaN
HasNaN(seq) == \E i \in 1..Len(seq) : IsNaN(seq[i])

\* a spike test that measures the jump from the newest sample only
IsSpike_FromLast(buf, rawHR) ==
  /\ Len(buf) >= 2
  /\ Abs(rawHR - buf[Len(buf)]) > HR_MAX_JUMP

\* the spike test: |rawHR - mean(buffer)| > HR_MAX_JUMP, on a buffer of 2 or
\* more; false when the raw value or the mean is NaN
IsSpike(buf, rawHR) ==
  /\ Len(buf) >= 2
  /\ ~IsNaN(rawHR) /\ ~HasNaN(buf)
  /\ Abs(rawHR * Len(buf) - SumSeq(buf)) > HR_MAX_JUMP * Len(buf)

\* the HR buffer after one reading
NextHrBuffer(buf, rawHR, finger) ==
  IF ~finger THEN <<>>
  ELSE LET pushed == IF IsSpike(buf, rawHR) THEN buf ELSE Append(buf, rawHR)
       IN IF Len(pushed) > HR_SMOOTHING_WINDOW THEN Tail(pushed) ELSE pushed

\* a heart rate reported as the rounded weighted mean, with no display clamp
SmoothedHR_Unclamped(buf, finger) ==
  IF ~finger THEN 0
  ELSE IF buf = <<>> THEN 0
  ELSE IF HasNaN(buf) THEN NotANumber
  ELSE LET n == Len(buf)
       IN RoundDiv(WeightedSum(buf, n), (n * (n + 1)) \div 2)

\* the heart rate reported: the weighted mean of the buffer, clamped to the
\* display range and rounded (Math.min, Math.max and Math.round keep NaN);
\* 0 without finger
SmoothedHR(buf, finger) ==
  IF ~finger THEN 0
  ELSE IF buf = <<>> THEN HR_DISPLAY_MIN
  ELSE IF HasNaN(buf) THEN NotANumber
  ELSE LET n == Len(buf)
           mean == RoundDiv(WeightedSum(buf, n), (n * (n + 1)) \div 2)
       IN Max(HR_DISPLAY_MIN, Min(HR_DISPLAY_MAX, mean))

\* the EDA buffer after one reading: only positive values are kept
NextEdaBuffer(buf, rawEDA) ==
  IF rawEDA > 0
    THEN LET pushed == Append(buf, rawEDA)
         IN IF Len(pushed) > HR_SMOOTHING_WINDOW THEN Tail(pushed) ELSE pushed
    ELSE buf

\* the EDA reported: the mean of the buffer to two decimals, or the raw value
SmoothedEDA(buf, rawEDA) ==
  IF rawEDA > 0 THEN RoundDiv(SumSeq(buf), Len(buf)) ELSE rawEDA

\* a detection that reads the gyroscope only when there is no accelerometer data
MotionDetected_GyroWithoutAccel(raw, prev) ==
  IF raw.motion # "none" THEN raw.motion = "yes"
  ELSE IF raw.accel # <<>>
    THEN \/ Abs(Magnitude(raw.accel) - 1000) > ACCEL_DEVIATION
         \/ /\ prev # NoAccelMag
            /\ Abs(Magnitude(raw.accel) - prev) > ACCEL_JERK
    ELSE raw.gyro # <<>> /\ Magnitude(raw.gyro) > GYRO_MOTION_THRESHOLD

\* motion: the explicit flag, else the accelerometer (deviation from rest, jerk
\* against the previous magnitude), else the gyroscope
MotionDetected(raw, prev) ==
  IF raw.motion # "none" THEN raw.motion = "yes"
  ELSE LET byAccel == /\ raw.accel # <<>>
                      /\ \/ Abs(Magnitude(raw.accel) - 1000) > ACCEL_DEVIATION
                         \/ /\ prev # NoAccelMag
                            /\ Abs(Magnitude(raw.accel) - prev) > ACCEL_JERK
       IN \/ byAccel
          \/ raw.gyro # <<>> /\ Magnitude(raw.gyro) > GYRO_MOTION_THRESHOLD

NextAccelMag(raw, prev) ==
  IF raw.motion = "none" /\ raw.accel # <<>> THEN Magnitude(raw.accel) ELSE prev

\* parseSensorData(data): the conditioner's state after the call and the
\* reading it returns
ParseSensorData(raw, hb, eb, prev) ==
  LET finger == FingerDetected(raw)
      hb2 == NextHrBuffer(hb, raw.heartRate, finger)
      eb2 == NextEdaBuffer(eb, raw.eda)
  IN [hrBuffer |-> hb2,
      edaBuffer |-> eb2,
      prevAccelMag |-> NextAccelMag(raw, prev),
      out |-> [heartRate |-> SmoothedHR(hb2, finger),
               fingerDetected |-> finger,
               temperature |-> IF raw.temperature > 0 THEN raw.temperature
                                                      ELSE DEFAULT_TEMPERATURE,
               eda |-> SmoothedEDA(eb2, raw.eda),
               motion |-> MotionDetected(raw, prev)]]

Payload(hr, eda, finger, accel) ==
  [heartRate |-> hr, eda |-> eda, temperature |-> 0, finger |-> finger, ir |-> NoField,
   motion |-> "none", accel |-> accel, gyro |-> <<>>]

\* the body the device sends with no finger on the sensor and the electrodes
\* open: zeros, no accelerometer fields
QuietPayload == Payload(0, 0, "none", <<>>)

\* the record of the last call before any body with data in it was parsed: that
\* of a call with the quiet body on the service as constructed
NoParse == [raw |-> QuietPayload, hrBefore |-> <<>>,
            out |-> ParseSensorData(QuietPayload, <<>>, <<>>, NoAccelMag).out]

\* the parseSensorData(raw) call as a step of the service
ParseStep(raw) ==
  LET p == ParseSensorData(raw, hrBuffer, edaBuffer, prevAccelMag)
  IN /\ hrBuffer' = p.hrBuffer
     /\ edaBuffer' = p.edaBuffer
     /\ prevAccelMag' = p.prevAccelMag
     /\ lastParse' = [raw |-> raw, hrBefore |-> hrBuffer, out |-> p.out]

-----------------------------------------------------------------------------
\* The BLE variant's parser (ESP32BLEService.parseSensorData): it keeps no
\* buffers.  A characteristic value is JSON text with the fields of the WiFi
\* body, or three comma-separated numbers "heartRate,temperature,eda".

BlePayload(format, hr, finger, ir) ==
  [format |-> format, heartRate |-> hr, temperature |-> 0, eda |-> 200,
   finger |-> finger, ir |-> ir]

\* detectFinger(rawData, rawHR) for JSON; the heart-rate range alone for CSV
BleFingerDetected(raw) ==
  IF raw.format = "json" THEN FingerDetected(raw)
  ELSE raw.heartRate >= 40 /\ raw.heartRate <= 200

BleParseSensorData(raw) ==
  LET finger == BleFingerDetected(raw)
  IN [heartRate |-> IF finger THEN raw.heartRate ELSE 0,
      fingerDetected |-> finger,
      temperature |-> IF raw.temperature > 0 THEN raw.temperature ELSE DEFAULT_TEMPERATURE,
      eda |-> raw.eda]

\* before any value was parsed: the record of a JSON value of zeros
NoBleParse ==
  [raw |-> BlePayload("json", 0, "none", NoField),
   out |-> BleParseSensorData(BlePayload("json", 0, "none", NoField))]

-----------------------------------------------------------------------------
\* The BLE link manager as constructed (ESP32BLEService constructor)

maxReconnectAttempts == 5

\* isConnected and reconnectAttempts are the service's fields; listeners counts
\* the onDisconnected callbacks registered for the device, one per successful
\* connect(); waiting counts the attemptReconnect() calls in their 2 s wait;
\* reachable tells whether the device answers; fatal, whether the error
\* callback was given 'Failed to reconnect after multiple attempts'
BleConstructed ==
  [isConnected |-> FALSE, reconnectAttempts |-> 0, listeners |-> 0, waiting |-> 0,
   reachable |-> TRUE, fatal |-> FALSE]

-----------------------------------------------------------------------------
\* The configuration manager as constructed (ConfigManager constructor).  An
\* object is a function from the names of its properties to their values,
\* written as the strings of the JSON text.

Undefined == "undefined"

\* AppConfig.esp32; endpoints is the table getEndpointURL reads
AppConfigEsp32 ==
  [defaultIP |-> "192.168.1.100", defaultPort |-> "80", pollingInterval |-> "2000",
   connectionTimeout |-> "5000", maxConsecutiveFailures |-> "5",
   endpoints |-> "{sensors,status}"]

Esp32Settings == DOMAIN AppConfigEsp32

EmptyObject == [k \in {} |-> Undefined]

\* obj[name] of JavaScript
Prop(obj, name) == IF name \in DOMAIN obj THEN obj[name] ELSE Undefined

\* { ...a, ...b }
Spread(a, b) ==
  [k \in DOMAIN a \cup DOMAIN b |-> IF k \in DOMAIN b THEN b[k] ELSE a[k]]

\* saved: whether AsyncStorage holds an item under the configuration key;
\* op and named: the last call and the esp32 settings its argument named
ConfigConstructed ==
  [esp32 |-> AppConfigEsp32, saved |-> FALSE, savedEsp32 |-> EmptyObject,
   op |-> "none", named |-> {}]

-----------------------------------------------------------------------------
\* The state after construction (ESP32WiFiService constructor)

InitServices ==
  /\ phase = "constructed"
  /\ pollingRate = DEFAULT_POLLING_RATE
  /\ maxConsecutiveFailures = DEFAULT_MAX_FAILURES
  /\ deviceIP = NoIP
  /\ isConnected = FALSE
  /\ pollingInterval = NoTimer
  /\ consecutiveFailures = 0
  /\ deviceInfo = "null"
  /\ activeTimers = {}
  /\ inflight = [t \in Targets |-> 0]
  /\ connPc = "idle"
  /\ probeTarget = NoIP
  /\ probed = <<>>
  /\ failRun = 0
  /\ session = FALSE
  /\ lostErrors = 0
  /\ last = Plain("init")
  /\ arrived = 0
  /\ handlers = [h \in ReadingIds |-> IdleHandler]
  /\ sensorData = 0
  /\ prediction = DEFAULT_PREDICTION
  /\ mlHistory = <<>>
  /\ lastPredict = NoPredict
  /\ mockTimers = {}
  /\ predictionIntervalRef = NoTimer
  /\ ctxIsConnected = FALSE
  /\ connectedDevice = "null"
  /\ synthetic = {}
  /\ hrBuffer = <<>>
  /\ edaBuffer = <<>>
  /\ prevAccelMag = NoAccelMag
  /\ lastParse = NoParse
  /\ weeklyData = <<>>
  /\ lastScore = <<>>
  /\ ble = BleConstructed
  /\ cfg = ConfigConstructed
  /\ bleParse = NoBleParse

\* nothing stored yet
EmptyStore == [readings |-> <<>>, predictions |-> <<>>, episodes |-> <<>>]
EmptyLog == [readings |-> <<>>, predictions |-> <<>>, appends |-> 0]

Init ==
  /\ InitServices
  /\ storedReadings = EmptyStore.readings
  /\ storedPredictions = EmptyStore.predictions
  /\ storedEpisodes = EmptyStore.episodes
  /\ storeLog = EmptyLog

-----------------------------------------------------------------------------
\* initialize(): polling rate and failure threshold come from the configuration
\* (WearableContext.initializeServices calls it once, at mount)
Initialize ==
  /\ phase = "constructed"
  /\ phase' = "initialized"
  /\ pollingRate' \in PollingRates
  /\ maxConsecutiveFailures' \in FailureThresholds
  /\ last' = Plain("initialize")
  /\ UNCHANGED <<deviceIP, isConnected, pollingInterval, consecutiveFailures, deviceInfo,
                 activeTimers, inflight, connPc, probeTarget, probed,
                 failRun, session, lostErrors>>
  /\ UNCHANGED <<pipeVars, condVars, appVars>>

\* setDataCallback, setConnectionCallback, setErrorCallback
SetCallbacks ==
  /\ phase = "initialized"
  /\ phase' = "wired"
  /\ UNCHANGED <<pollingRate, maxConsecutiveFailures, deviceIP, isConnected,
                 pollingInterval, consecutiveFailures, deviceInfo, activeTimers,
                 inflight, connPc, probeTarget, probed, failRun,
                 session, lostErrors, last>>
  /\ UNCHANGED <<pipeVars, condVars, appVars>>

-----------------------------------------------------------------------------
\* disconnect()

Disconnect_KeepsCounter ==
  /\ activeTimers' = TimersAfterStop(activeTimers, pollingInterval)
  /\ pollingInterval' = NoTimer
  /\ isConnected' = FALSE
  /\ deviceIP' = NoIP
  /\ consecutiveFailures' = consecutiveFailures
  /\ deviceInfo' = "null"

\* the body of disconnect(): stopPolling, then the fields are cleared
DisconnectBody ==
  /\ activeTimers' = TimersAfterStop(activeTimers, pollingInterval)
  /\ pollingInterval' = NoTimer
  /\ isConnected' = FALSE
  /\ deviceIP' = NoIP
  /\ consecutiveFailures' = 0
  /\ deviceInfo' = "null"

Disconnect ==
  /\ phase = "wired"
  /\ DisconnectBody
  /\ last' = [Step("disconnect", Emit(<<"conn_false">>), "ok", "", "none")
                EXCEPT !.preOp = last.op]
  /\ UNCHANGED <<phase, pollingRate, maxConsecutiveFailures, inflight, connPc,
                 probeTarget, probed, failRun, session, lostErrors>>
  /\ UNCHANGED <<pipeVars, condVars, appVars>>

\* destroy(): stopPolling(), then disconnect()
Destroy ==
  /\ phase = "wired"
  /\ DisconnectBody
  /\ last' = Step("destroy", Emit(<<"conn_false">>), "ok", "", "none")
  /\ UNCHANGED <<phase, pollingRate, maxConsecutiveFailures, inflight, connPc,
                 probeTarget, probed, failRun, session, lostErrors>>
  /\ UNCHANGED <<pipeVars, condVars, appVars>>

-----------------------------------------------------------------------------
\* startPolling(), stopPolling(), setPollingRate(rateMs)

StartPolling ==
  /\ phase = "wired"
  /\ CanSetTimer
  /\ activeTimers' = StartPollingResult(activeTimers, pollingInterval).timers
  /\ pollingInterval' = StartPollingResult(activeTimers, pollingInterval).handle
  /\ last' = Step("startPolling", <<>>, "none", "", "none")
  /\ UNCHANGED <<phase, pollingRate, maxConsecutiveFailures, deviceIP, isConnected,
                 consecutiveFailures, deviceInfo, inflight, connPc, probeTarget,
                 probed, failRun, session, lostErrors>>
  /\ UNCHANGED <<pipeVars, condVars, appVars>>

StopPolling ==
  /\ phase = "wired"
  /\ activeTimers' = TimersAfterStop(activeTimers, pollingInterval)
  /\ pollingInterval' = NoTimer
  /\ last' = Step("stopPolling", <<>>, "none", "", "none")
  /\ UNCHANGED <<phase, pollingRate, maxConsecutiveFailures, deviceIP, isConnected,
                 consecutiveFailures, deviceInfo, inflight, connPc, probeTarget,
                 probed, failRun, session, lostErrors>>
  /\ UNCHANGED <<pipeVars, condVars, appVars>>

SetPollingRate(rateMs) ==
  /\ phase = "wired"
  /\ CanSetTimer
  /\ pollingRate' = rateMs
  /\ IF isConnected /\ pollingInterval # NoTimer
       THEN LET stopped == TimersAfterStop(activeTimers, pollingInterval)
            IN /\ activeTimers' = StartPollingResult(stopped, NoTimer).timers
               /\ pollingInterval' = StartPollingResult(stopped, NoTimer).handle
       ELSE UNCHANGED <<activeTimers, pollingInterval>>
  /\ last' = Step("setPollingRate", <<>>, "none", "", "none")
  /\ UNCHANGED <<phase, maxConsecutiveFailures, deviceIP, isConnected,
                 consecutiveFailures, deviceInfo, inflight, connPc, probeTarget,
                 probed, failRun, session, lostErrors>>
  /\ UNCHANGED <<pipeVars, condVars, appVars>>

-----------------------------------------------------------------------------
\* connect(ipAddress, port)

ConnectCall_Optimistic(ip) ==
  /\ phase = "wired"
  /\ connPc = "idle"
  /\ connPc' = "saving"
  /\ deviceIP' = ip
  /\ isConnected' = TRUE
  /\ probed' = <<>>
  /\ last' = Plain("connectCall")
  /\ UNCHANGED <<phase, pollingRate, maxConsecutiveFailures,
                 pollingInterval, consecutiveFailures, deviceInfo, activeTimers,
                 inflight, probeTarget, failRun, session, lostErrors>>
  /\ UNCHANGED <<pipeVars, condVars, appVars>>

\* connect, up to its first await: the address is stored, the configuration saved
ConnectCall(ip) ==
  /\ phase = "wired"
  /\ connPc = "idle"
  /\ connPc' = "saving"
  /\ deviceIP' = ip
  /\ probed' = <<>>
  /\ last' = Plain("connectCall")
  /\ UNCHANGED <<phase, pollingRate, maxConsecutiveFailures, isConnected,
                 pollingInterval, consecutiveFailures, deviceInfo, activeTimers,
                 inflight, probeTarget, failRun, session, lostErrors>>
  /\ UNCHANGED <<pipeVars, condVars, appVars>>

\* updateESP32Config has resolved: testConnection requests the first candidate,
\* at the address the service holds now
ConfigSaved ==
  /\ connPc = "saving"
  /\ connPc' = "probing"
  /\ probed' = <<Endpoints[1]>>
  /\ probeTarget' = deviceIP
  /\ UNCHANGED <<phase, pollingRate, maxConsecutiveFailures, deviceIP, isConnected,
                 pollingInterval, consecutiveFailures, deviceInfo, activeTimers,
                 inflight, failRun, session, lostErrors, last>>
  /\ UNCHANGED <<pipeVars, condVars, appVars>>

ConnectFail_KeepsState(thrown, probe) ==
  /\ connPc' = "idle"
  /\ UNCHANGED isConnected
  /\ last' = Step("connectFail", <<>>, "fail", ConnectErrorMsg(thrown), probe)
  /\ probed' = <<>>
  /\ probeTarget' = NoIP
  /\ UNCHANGED <<deviceIP, pollingInterval, consecutiveFailures, deviceInfo,
                 activeTimers, session, lostErrors>>

\* connect's catch: the link is marked not connected and a failure result returned;
\* the timer, the address and the counter are left as they are
ConnectFail(thrown, probe) ==
  /\ connPc' = "idle"
  /\ isConnected' = FALSE
  /\ last' = Step("connectFail", <<>>, "fail", ConnectErrorMsg(thrown), probe)
  /\ probed' = <<>>
  /\ probeTarget' = NoIP
  /\ UNCHANGED <<deviceIP, pollingInterval, consecutiveFailures, deviceInfo,
                 activeTimers, session, lostErrors>>

\* connect after testConnection returned a device info
ConnectSucceed(info, probe) ==
  /\ connPc' = "idle"
  /\ isConnected' = TRUE
  /\ consecutiveFailures' = 0
  /\ deviceInfo' = info
  /\ activeTimers' = StartPollingResult(activeTimers, pollingInterval).timers
  /\ pollingInterval' = StartPollingResult(activeTimers, pollingInterval).handle
  /\ session' = TRUE
  /\ lostErrors' = 0
  /\ last' = Step("connectOk", Emit(<<"conn_true">>), "ok", "", probe)
  /\ probed' = <<>>
  /\ probeTarget' = NoIP
  /\ UNCHANGED deviceIP

\* The response to the probe request in flight arrives (or its error). A request
\* sent while the address was null reaches no device.
ProbeResponseBody(outcome) ==
  /\ connPc = "probing"
  /\ CanSetTimer
  /\ probeTarget = NoIP => outcome \in NoResponses
  /\ IF TestReachable(outcome)
       THEN ConnectSucceed(TestConnectionInfo(outcome), outcome)
       ELSE /\ IF Len(probed) < Len(Endpoints)
                 THEN /\ probed' = Append(probed, Endpoints[Len(probed) + 1])
                      /\ probeTarget' = deviceIP
                      /\ last' = [Plain("probeNext") EXCEPT !.probe = outcome]
                      /\ UNCHANGED <<connPc, deviceIP, isConnected, pollingInterval,
                                     consecutiveFailures, deviceInfo, activeTimers,
                                     session, lostErrors>>
                 ELSE ConnectFail(TestConnectionError(outcome), outcome)

ProbeResponse(outcome) ==
  /\ ProbeResponseBody(outcome)
  /\ UNCHANGED <<phase, pollingRate, maxConsecutiveFailures, inflight, failRun>>
  /\ UNCHANGED <<pipeVars, condVars, appVars>>

-----------------------------------------------------------------------------
\* The poll loop: the interval callback of startPolling

\* A timer fires: the async callback starts and awaits fetchSensorData, whose
\* request goes to the address the service holds now. setInterval does not wait
\* for the callback's promise.
TimerFire(t) ==
  /\ t \in activeTimers
  /\ InFlightCount < MaxInFlight
  /\ inflight' = [inflight EXCEPT ![deviceIP] = @ + 1]
  /\ UNCHANGED <<phase, pollingRate, maxConsecutiveFailures, deviceIP, isConnected,
                 pollingInterval, consecutiveFailures, deviceInfo, activeTimers,
                 connPc, probeTarget, probed, failRun, session, lostErrors, last>>
  /\ UNCHANGED <<pipeVars, condVars, appVars>>

PollSuccess_NoReset ==
  /\ UNCHANGED consecutiveFailures
  /\ failRun' = 0
  /\ last' = Step("pollData", Emit(<<"data">>), "none", "", "none")
  /\ UNCHANGED <<isConnected, deviceIP, pollingInterval, activeTimers, deviceInfo,
                 session, lostErrors>>

\* the callback after fetchSensorData returned a reading
PollSuccess ==
  /\ consecutiveFailures' = 0
  /\ failRun' = 0
  /\ last' = Step("pollData", Emit(<<"data">>), "none", "", "none")
  /\ UNCHANGED <<isConnected, deviceIP, pollingInterval, activeTimers, deviceInfo,
                 session, lostErrors>>

\* a callback that takes a null reading for a successful poll
PollUnparsed_ResetsFailures ==
  /\ last' = Plain("pollNull")
  /\ consecutiveFailures' = 0
  /\ UNCHANGED <<isConnected, deviceIP, pollingInterval, activeTimers, deviceInfo,
                 failRun, session, lostErrors>>

\* the callback after parseSensorData returned null: nothing is done
PollUnparsed ==
  /\ last' = Plain("pollNull")
  /\ UNCHANGED <<isConnected, deviceIP, pollingInterval, activeTimers, deviceInfo,
                 consecutiveFailures, failRun, session, lostErrors>>

ReachedThreshold_OffByOne(n, max) == n > max

\* handlePollingError's test
ReachedThreshold(n, max) == n >= max

\* handlePollingError: count the failure; at the threshold disconnect(), then
\* the 'Lost connection' error goes to the error callback
HandlePollingError ==
  /\ failRun' = Min(failRun + 1, DEFAULT_MAX_FAILURES)
  /\ IF ReachedThreshold(consecutiveFailures + 1, maxConsecutiveFailures)
       THEN /\ DisconnectBody
            /\ UNCHANGED session
            /\ lostErrors' = IF phase = "wired" /\ session
                               THEN Min(lostErrors + 1, MaxLostCount)
                               ELSE lostErrors
            /\ last' = Step("pollFail", Emit(<<"conn_false", "error_lost">>), "forced",
                            MsgLost, "none")
       ELSE /\ consecutiveFailures' = consecutiveFailures + 1
            /\ last' = Step("pollFail", <<>>, "none", "", "none")
            /\ UNCHANGED <<isConnected, deviceIP, pollingInterval, activeTimers,
                           deviceInfo, session, lostErrors>>

\* A fetch in flight ends: with a body raw that parseSensorData turns into a
\* reading, with a body parseSensorData cannot parse (it throws at the first
\* field and returns null), or with an error (a timeout after 3000 ms at the
\* latest). A request sent while the address was null can only fail.
FetchComplete(target, outcome, raw) ==
  /\ inflight[target] > 0
  /\ target = NoIP => outcome = "fail"
  /\ inflight' = [inflight EXCEPT ![target] = @ - 1]
  /\ CASE outcome = "data" -> PollSuccess /\ ParseStep(raw)
       [] outcome = "unparsed" -> PollUnparsed /\ UNCHANGED condVars
       [] OTHER -> HandlePollingError /\ UNCHANGED condVars
  /\ UNCHANGED <<phase, pollingRate, maxConsecutiveFailures, connPc, probeTarget,
                 probed>>
  /\ UNCHANGED <<pipeVars, appVars>>

\* the bodies the device answers with in the runs of the link manager
LinkPayloads == {QuietPayload}

-----------------------------------------------------------------------------
Next ==
  \/ Initialize
  \/ SetCallbacks
  \/ \E ip \in Addrs : ConnectCall(ip)
  \/ ConfigSaved
  \/ \E o \in ProbeOutcomes : ProbeResponse(o)
  \/ \E t \in TimerIds : TimerFire(t)
  \/ \E tg \in Targets, o \in {"data", "unparsed", "fail"}, raw \in LinkPayloads :
       FetchComplete(tg, o, raw)
  \/ Disconnect
  \/ Destroy
  \/ StartPolling
  \/ StopPolling
  \/ \E r \in PollingRates : SetPollingRate(r)

Spec == Init /\ [][Next]_vars

-----------------------------------------------------------------------------
\* Link sessions with a finger on the sensor: the manager is connected and
\* polling, is disconnected by the caller or by repeated failures, and is
\* connected again.

\* the body of a device worn at rest: heart rate 72, EDA 2.00, 1 g on one axis
RestPayload == Payload(72, 200, "none", <<0, 0, 1000>>)

SessionPayloads == {RestPayload}

\* the manager after initialize() with the default configuration,
\* setCallbacks() and a connect() answered by the first endpoint: connected
\* and polling, nothing parsed yet
SessionInit ==
  /\ phase = "wired"
  /\ pollingRate = DEFAULT_POLLING_RATE
  /\ maxConsecutiveFailures = DEFAULT_MAX_FAILURES
  /\ deviceIP \in Addrs
  /\ isConnected = TRUE
  /\ pollingInterval = 1
  /\ consecutiveFailures = 0
  /\ deviceInfo = "data"
  /\ activeTimers = {1}
  /\ inflight = [t \in Targets |-> 0]
  /\ connPc = "idle"
  /\ probeTarget = NoIP
  /\ probed = <<>>
  /\ failRun = 0
  /\ session = TRUE
  /\ lostErrors = 0
  /\ last = [op |-> "connectOk", emitted |-> <<"conn_true">>, result |-> "ok",
             error |-> "", probe |-> "ok", probes |-> 1, preOp |-> "none",
             preConnected |-> FALSE, preFailures |-> 0, preTimer |-> NoTimer]
  /\ arrived = 0
  /\ handlers = [h \in ReadingIds |-> IdleHandler]
  /\ sensorData = 0
  /\ prediction = DEFAULT_PREDICTION
  /\ mlHistory = <<>>
  /\ lastPredict = NoPredict
  /\ mockTimers = {}
  /\ predictionIntervalRef = NoTimer
  /\ ctxIsConnected = FALSE
  /\ connectedDevice = "null"
  /\ synthetic = {}
  /\ storedReadings = EmptyStore.readings
  /\ storedPredictions = EmptyStore.predictions
  /\ storedEpisodes = EmptyStore.episodes
  /\ storeLog = EmptyLog
  /\ hrBuffer = <<>>
  /\ edaBuffer = <<>>
  /\ prevAccelMag = NoAccelMag
  /\ lastParse = NoParse
  /\ weeklyData = <<>>
  /\ lastScore = <<>>
  /\ ble = BleConstructed
  /\ cfg = ConfigConstructed
  /\ bleParse = NoBleParse

SessionNext ==
  \/ \E ip \in Addrs : ConnectCall(ip)
  \/ ConfigSaved
  \/ \E o \in ProbeOutcomes : ProbeResponse(o)
  \/ \E t \in TimerIds : TimerFire(t)
  \/ \E tg \in Targets, o \in {"data", "unparsed", "fail"}, raw \in SessionPayloads :
       FetchComplete(tg, o, raw)
  \/ Disconnect

SessionSpec == SessionInit /\ [][SessionNext]_vars

-----------------------------------------------------------------------------
\* The conditioner called on its own, body after body

\* heart rates around a resting one: 25 above it, 26 above it, 26 below it
CondHeartRates == {70, 95, 96, 44}

\* bodies with the finger found by the heart rate, one with the accelerometer;
\* a body with the explicit flag false; the quiet body
CondPayloads ==
  {Payload(hr, 200, "none", <<>>) : hr \in CondHeartRates}
    \cup {Payload(70, 0, "yes", <<0, 600, 800>>), Payload(70, 200, "no", <<>>), QuietPayload}

ParseCall(raw) ==
  /\ ParseStep(raw)
  /\ UNCHANGED <<linkVars, pipeVars, appVars>>

CondNext == \E raw \in CondPayloads : ParseCall(raw)

CondSpec == Init /\ [][CondNext]_vars

-----------------------------------------------------------------------------
\* The conditioner given bodies whose heart rate is not a number: parseFloat
\* of such a field is NaN.

GarbledPayloads ==
  { Payload(70, 200, "yes", <<>>), Payload(95, 200, "yes", <<>>),
    Payload(NotANumber, 200, "yes", <<>>), Payload(NotANumber, 200, "none", <<>>),
    Payload(70, 200, "no", <<>>), QuietPayload }

GarbledNext == \E raw \in GarbledPayloads : ParseCall(raw)

GarbledSpec == Init /\ [][GarbledNext]_vars

-----------------------------------------------------------------------------
\* Finger detection in both parsers, on bodies that carry the flag, the IR
\* value and the heart rate in every combination

ContactFlags == {"none", "yes", "no"}
ContactIrValues == {NoField, 50000, 50001}
ContactHeartRates == {39, 40, 200, 201}

\* the WiFi bodies: a heart rate on the lower edge and one above the upper
\* edge
ContactPayloads ==
  {[Payload(hr, 0, finger, <<>>) EXCEPT !.ir = ir] :
     hr \in {40, 201}, finger \in ContactFlags, ir \in ContactIrValues}

BleContactPayloads ==
  {BlePayload("json", hr, finger, ir) :
     hr \in ContactHeartRates, finger \in ContactFlags, ir \in ContactIrValues}
    \cup {BlePayload("csv", hr, "none", NoField) : hr \in ContactHeartRates}

\* a notification of the sensor characteristic is parsed
BleParseCall(raw) ==
  /\ bleParse' = [raw |-> raw, out |-> BleParseSensorData(raw)]
  /\ UNCHANGED <<linkVars, pipeVars, condVars, weeklyData, lastScore, ble, cfg>>

ContactNext ==
  \/ \E raw \in ContactPayloads : ParseCall(raw)
  \/ \E raw \in BleContactPayloads : BleParseCall(raw)

ContactSpec == Init /\ [][ContactNext]_vars

-----------------------------------------------------------------------------
\* Motion detection on bodies that carry the flag, the accelerometer and the
\* gyroscope in every combination, with no finger on the sensor

MotionFlags == {"none", "yes", "no"}

\* at rest (1.000 g, on one axis and on two), 1.100 g, on the edge 1.150 g,
\* 1.200 g; or no accelerometer fields
MotionAccels == {<<>>, <<0, 0, 1000>>, <<0, 600, 800>>, <<0, 0, 1100>>, <<0, 0, 1150>>,
                 <<0, 0, 1200>>}

\* 30 deg/s on one axis and on two, 31 deg/s; or no gyroscope fields
MotionGyros == {<<>>, <<0, 0, 30>>, <<18, 24, 0>>, <<0, 0, 31>>}

MotionPayloads ==
  {[Payload(0, 0, "none", accel) EXCEPT !.motion = flag, !.gyro = gyro] :
     flag \in MotionFlags, accel \in MotionAccels, gyro \in MotionGyros}

MotionNext == \E raw \in MotionPayloads : ParseCall(raw)

MotionSpec == Init /\ [][MotionNext]_vars

-----------------------------------------------------------------------------
\* The orchestrator's data handler (WearableContext.handleSensorData) with the
\* store and the classifier's window.  The handler is an async function: it
\* runs to its next await, and whatever else is ready runs in between.  The
\* link's poll callback and the mock stream call it without awaiting it.

Active(h) == handlers[h].pc \notin {"none", "done"}

\* handleSensorData(data), up to "await StorageService.saveSensorReading(data)",
\* which is itself waiting for getSensorReadings()
HandleSensorData(data) ==
  /\ arrived < MaxReadings
  /\ arrived' = arrived + 1
  /\ sensorData' = arrived + 1
  /\ handlers' = [handlers EXCEPT ![arrived + 1] =
                    [pc |-> "readingsGet", data |-> data, buf |-> <<>>, out |-> NoResult]]
  /\ UNCHANGED <<prediction, mlHistory, storedReadings, storedPredictions, storedEpisodes>>
  /\ UNCHANGED <<lastPredict, storeLog>>
  /\ UNCHANGED <<linkVars, condVars, appVars>>

\* the link's poll callback hands a conditioned reading to the handler
ReadingArrives(data) ==
  /\ HandleSensorData(data)
  /\ UNCHANGED <<mockVars, synthetic>>

\* saveSensorReading: getSensorReadings() answers with what is stored now
ReadingsGet(h) ==
  /\ handlers[h].pc = "readingsGet"
  /\ handlers' = [handlers EXCEPT ![h].pc = "readingsSet", ![h].buf = storedReadings]
  /\ UNCHANGED <<arrived, sensorData, prediction, mlHistory, storedReadings,
                 storedPredictions, storedEpisodes>>
  /\ UNCHANGED <<lastPredict, synthetic>>
  /\ UNCHANGED envVars

\* the handler without its fingerDetected check
ReadingsSet_NoFingerCheck(h) ==
  /\ handlers[h].pc = "readingsSet"
  /\ storedReadings' = SliceLast(Append(handlers[h].buf, h), MAX_STORED_READINGS)
  /\ LET p == Predict(mlHistory, handlers[h].data)
     IN /\ mlHistory' = p.history
        /\ lastPredict' = PredictCallRecord(handlers[h].data, p)
        /\ prediction' = [reading |-> h, state |-> p.result.state,
                          confidence |-> p.result.confidence]
        /\ handlers' = [handlers EXCEPT ![h].pc = "predictionsGet",
                                        ![h].buf = <<>>, ![h].out = p.result]
  /\ UNCHANGED <<arrived, sensorData, storedPredictions, storedEpisodes, synthetic>>
  /\ UNCHANGED envVars

\* saveSensorReading: push, slice(-1000), setItem; then the handler goes on:
\* no finger -> prediction reset and return; else predict() (window push and
\* smoothing, no await inside on the rule path), setPrediction, and
\* savePrediction() up to its getPredictions()
ReadingsSet(h) ==
  /\ handlers[h].pc = "readingsSet"
  /\ storedReadings' = SliceLast(Append(handlers[h].buf, h), MAX_STORED_READINGS)
  /\ IF ~handlers[h].data.fingerDetected
     THEN /\ prediction' = DEFAULT_PREDICTION
          /\ handlers' = [handlers EXCEPT ![h].pc = "done", ![h].buf = <<>>]
          /\ UNCHANGED <<mlHistory, lastPredict>>
     ELSE LET p == Predict(mlHistory, handlers[h].data)
          IN /\ mlHistory' = p.history
             /\ lastPredict' = PredictCallRecord(handlers[h].data, p)
             /\ prediction' = [reading |-> h, state |-> p.result.state,
                               confidence |-> p.result.confidence]
             /\ handlers' = [handlers EXCEPT ![h].pc = "predictionsGet",
                                             ![h].buf = <<>>, ![h].out = p.result]
  /\ UNCHANGED <<arrived, sensorData, storedPredictions, storedEpisodes, synthetic>>
  /\ UNCHANGED envVars

\* savePrediction: getPredictions() answers with what is stored now
PredictionsGet(h) ==
  /\ handlers[h].pc = "predictionsGet"
  /\ handlers' = [handlers EXCEPT ![h].pc = "predictionsSet", ![h].buf = storedPredictions]
  /\ UNCHANGED <<arrived, sensorData, prediction, mlHistory, storedReadings,
                 storedPredictions, storedEpisodes>>
  /\ UNCHANGED <<lastPredict, synthetic>>
  /\ UNCHANGED envVars

\* savePrediction: push, slice(-500), setItem; a Stressed or Meltdown
\* prediction goes on to saveStressEpisode() up to its getStressEpisodes()
PredictionsSet(h) ==
  /\ handlers[h].pc = "predictionsSet"
  /\ storedPredictions' =
       SliceLast(Append(handlers[h].buf,
                        [reading |-> h, state |-> handlers[h].out.state,
                         confidence |-> handlers[h].out.confidence]),
                 MAX_STORED_PREDICTIONS)
  /\ handlers' = [handlers EXCEPT
                    ![h].pc = IF handlers[h].out.state \in {"Stressed", "Meltdown"}
                              THEN "episodesGet" ELSE "done",
                    ![h].buf = <<>>]
  /\ UNCHANGED <<arrived, sensorData, prediction, mlHistory, storedReadings, storedEpisodes>>
  /\ UNCHANGED <<lastPredict, synthetic>>
  /\ UNCHANGED envVars

\* saveStressEpisode: getStressEpisodes() answers with what is stored now
EpisodesGet(h) ==
  /\ handlers[h].pc = "episodesGet"
  /\ handlers' = [handlers EXCEPT ![h].pc = "episodesSet", ![h].buf = storedEpisodes]
  /\ UNCHANGED <<arrived, sensorData, prediction, mlHistory, storedReadings,
                 storedPredictions, storedEpisodes>>
  /\ UNCHANGED <<lastPredict, synthetic>>
  /\ UNCHANGED envVars

\* saveStressEpisode: push, slice(-200), setItem; the handler returns
EpisodesSet(h) ==
  /\ handlers[h].pc = "episodesSet"
  /\ storedEpisodes' = SliceLast(Append(handlers[h].buf, h), MAX_STORED_EPISODES)
  /\ handlers' = [handlers EXCEPT ![h].pc = "done", ![h].buf = <<>>]
  /\ UNCHANGED <<arrived, sensorData, prediction, mlHistory, storedReadings,
                 storedPredictions>>
  /\ UNCHANGED <<lastPredict, synthetic>>
  /\ UNCHANGED envVars

PipeNext ==
  \/ \E data \in PipeReadings : ReadingArrives(data)
  \/ \E h \in ReadingIds : ReadingsGet(h)
  \/ \E h \in ReadingIds : ReadingsSet(h)
  \/ \E h \in ReadingIds : PredictionsGet(h)
  \/ \E h \in ReadingIds : PredictionsSet(h)
  \/ \E h \in ReadingIds : EpisodesGet(h)
  \/ \E h \in ReadingIds : EpisodesSet(h)

PipeSpec == Init /\ [][PipeNext]_vars

-----------------------------------------------------------------------------
\* The classifier alone (MLModelService): predict() called on one reading after
\* another, and clearHistory().

\* readings given to predict(): calm; critical EDA with high temperature;
\* critical HR and EDA; critical HR with elevated EDA; a heart rate below 40
ClassifyReadings ==
  { [heartRate |-> 65, temperature |-> 366, eda |-> 1, fingerDetected |-> TRUE],
    [heartRate |-> 65, temperature |-> 390, eda |-> 19, fingerDetected |-> TRUE],
    [heartRate |-> 165, temperature |-> 369, eda |-> 19, fingerDetected |-> TRUE],
    [heartRate |-> 165, temperature |-> 366, eda |-> 9, fingerDetected |-> TRUE],
    [heartRate |-> 30, temperature |-> 366, eda |-> 1, fingerDetected |-> TRUE] }

\* MLModelService.predict(data)
PredictCall(data) ==
  LET p == Predict(mlHistory, data)
  IN /\ mlHistory' = p.history
     /\ lastPredict' = PredictCallRecord(data, p)
     /\ UNCHANGED <<arrived, handlers, sensorData, prediction, storedReadings,
                    storedPredictions, storedEpisodes, synthetic>>
     /\ UNCHANGED envVars

\* MLModelService.clearHistory()
ClearHistory ==
  /\ mlHistory # <<>>
  /\ mlHistory' = <<>>
  /\ UNCHANGED <<arrived, handlers, sensorData, prediction, storedReadings,
                 storedPredictions, storedEpisodes, lastPredict, synthetic>>
  /\ UNCHANGED envVars

ClassifyNext ==
  \/ \E data \in ClassifyReadings : PredictCall(data)
  \/ ClearHistory

ClassifySpec == Init /\ [][ClassifyNext]_vars

-----------------------------------------------------------------------------
\* The classifier given malformed readings

Reading(hr, temp, eda) ==
  [heartRate |-> hr, temperature |-> temp, eda |-> eda, fingerDetected |-> TRUE]

\* readings given to predict(): a calm one and a stressed one; heart rates just
\* outside the range; each field in turn not a number, and NaN
MalformedReadings ==
  { Reading(65, 366, 1), Reading(65, 390, 19),
    Reading(39, 366, 1), Reading(201, 366, 1),
    Reading(NonNumber, 366, 1), Reading(65, NonNumber, 1), Reading(65, 366, NonNumber),
    Reading(NotANumber, 366, 1), Reading(65, NotANumber, 1), Reading(65, 366, NotANumber) }

ValidateNext ==
  \/ \E data \in MalformedReadings : PredictCall(data)
  \/ ClearHistory

ValidateSpec == Init /\ [][ValidateNext]_vars

-----------------------------------------------------------------------------
\* The rule classifier called on valid readings, one after another

ScoreHeartRates == {60, 119, 120, 140, 160, 190}
ScoreEdas == {1, 8, 12, 18, 24}
ScoreTemperatures == {365, 370, 380, 388, 400}

ScoreReadings ==
  {Reading(hr, temp, eda) : hr \in ScoreHeartRates, temp \in ScoreTemperatures,
                            eda \in ScoreEdas}

\* predictWithRules(sensorData): the reading and its stressScore are kept
\* beside those of the call before
ScoreCall(data) ==
  LET scored == [data |-> data,
                 stressScore |-> PredictWithRules(data.heartRate, data.temperature,
                                                  data.eda).stressScore]
  IN /\ lastScore' = IF Len(lastScore) < 2 THEN Append(lastScore, scored)
                     ELSE <<lastScore[2], scored>>
     /\ UNCHANGED <<linkVars, pipeVars, condVars, bleParse, weeklyData, ble, cfg>>

ScoreNext == \E data \in ScoreReadings : ScoreCall(data)

ScoreSpec == Init /\ [][ScoreNext]_vars

-----------------------------------------------------------------------------
\* The BLE link manager: connect, the device dropping the link, reconnection

MaxListeners == 6

BleOutcomes == {"ok", "error", "hang"}

\* connect(deviceId) with its outcome: connectToDevice and the discovery
\* succeed; one of them rejects and the catch clears isConnected; or
\* connectToDevice (autoConnect) stays pending
BleConnected(b, outcome) ==
  CASE outcome = "ok" -> [b EXCEPT !.isConnected = TRUE, !.reconnectAttempts = 0,
                                   !.listeners = @ + 1]
    [] outcome = "error" -> [b EXCEPT !.isConnected = FALSE]
    [] OTHER -> b

BlePossible(outcome) ==
  outcome = "ok" => ble.reachable /\ ble.listeners < MaxListeners

\* attemptReconnect up to its wait, called n times in a row: below the cap the
\* counter goes up and the call waits, at the cap the error callback is invoked
RECURSIVE AttemptReconnects(_, _)
AttemptReconnects(b, n) ==
  IF n = 0 THEN b
  ELSE AttemptReconnects(
         IF b.reconnectAttempts >= maxReconnectAttempts
           THEN [b EXCEPT !.fatal = TRUE]
           ELSE [b EXCEPT !.reconnectAttempts = @ + 1, !.waiting = @ + 1],
         n - 1)

\* connect(deviceId) called by the application
BleConnect(outcome) ==
  /\ BlePossible(outcome)
  /\ ble' = BleConnected(ble, outcome)
  /\ UNCHANGED <<linkVars, pipeVars, condVars, bleParse, weeklyData, lastScore, cfg>>

\* the connected device drops the link and stays in range or not: every
\* registered onDisconnected callback clears isConnected and calls
\* attemptReconnect
BleDeviceDisconnected(inRange) ==
  /\ ble.isConnected
  /\ ble' = AttemptReconnects([ble EXCEPT !.isConnected = FALSE, !.reachable = inRange],
                              ble.listeners)
  /\ UNCHANGED <<linkVars, pipeVars, condVars, bleParse, weeklyData, lastScore, cfg>>

\* the device comes back in range
BleDeviceBack ==
  /\ ~ble.reachable
  /\ ble' = [ble EXCEPT !.reachable = TRUE]
  /\ UNCHANGED <<linkVars, pipeVars, condVars, bleParse, weeklyData, lastScore, cfg>>

\* attemptReconnect after its wait: connect(deviceId), whose failure is
\* returned, not thrown
BleReconnect(outcome) ==
  /\ ble.waiting > 0
  /\ BlePossible(outcome)
  /\ ble' = BleConnected([ble EXCEPT !.waiting = @ - 1], outcome)
  /\ UNCHANGED <<linkVars, pipeVars, condVars, bleParse, weeklyData, lastScore, cfg>>

BleNext ==
  \/ \E o \in BleOutcomes : BleConnect(o)
  \/ \E inRange \in BOOLEAN : BleDeviceDisconnected(inRange)
  \/ BleDeviceBack
  \/ \E o \in BleOutcomes : BleReconnect(o)

\* every attemptReconnect in its wait goes on when its timer fires
BleSpec == Init /\ [][BleNext]_vars /\ WF_vars(\E o \in BleOutcomes : BleReconnect(o))

-----------------------------------------------------------------------------
\* The configuration manager: saveConfig, updateESP32Config, loadConfig,
\* resetToDefaults

\* a setting the getters return
Resolved(config, name) == Prop(config.esp32, name)

\* the esp32 objects given to saveConfig: the documented example, two with the
\* polling interval alone, two with the failure settings
Esp32Updates ==
  { [defaultIP |-> "192.168.1.200", defaultPort |-> "8080", pollingInterval |-> "3000"],
    [pollingInterval |-> "1000"],
    [pollingInterval |-> "5000"],
    [connectionTimeout |-> "10000", maxConsecutiveFailures |-> "10"],
    [connectionTimeout |-> "3000", maxConsecutiveFailures |-> "3"] }

ConfigAddresses == {"192.168.1.100", "192.168.1.150", "192.168.1.200"}
ConfigPorts == {"80", "8080"}

\* saveConfig(updates) with updates = {esp32: upd}: this.config becomes
\* {...this.config, ...updates}, so esp32 is the object given; the whole
\* configuration is written to AsyncStorage
SaveConfigBody(config, upd, op, named) ==
  [esp32 |-> upd, saved |-> TRUE, savedEsp32 |-> upd, op |-> op, named |-> named]

SaveConfig(upd) ==
  /\ cfg' = SaveConfigBody(cfg, upd, "saveConfig", DOMAIN upd)
  /\ UNCHANGED <<linkVars, pipeVars, condVars, bleParse, weeklyData, lastScore, ble>>

\* updateESP32Config(ipAddress, port): saveConfig with the current esp32
\* object and the two settings over it
UpdateESP32Config(ipAddress, port) ==
  /\ cfg' = SaveConfigBody(cfg,
                           Spread(cfg.esp32, [defaultIP |-> ipAddress, defaultPort |-> port]),
                           "updateESP32Config", {"defaultIP", "defaultPort"})
  /\ UNCHANGED <<linkVars, pipeVars, condVars, bleParse, weeklyData, lastScore, ble>>

\* loadConfig(): the saved esp32 object over AppConfig.esp32, if one is saved
LoadConfig ==
  /\ cfg' = [cfg EXCEPT !.esp32 = IF cfg.saved THEN Spread(AppConfigEsp32, cfg.savedEsp32)
                                  ELSE @,
                        !.op = "loadConfig", !.named = {}]
  /\ UNCHANGED <<linkVars, pipeVars, condVars, bleParse, weeklyData, lastScore, ble>>

\* resetToDefaults()
ResetToDefaults ==
  /\ cfg' = [ConfigConstructed EXCEPT !.op = "resetToDefaults"]
  /\ UNCHANGED <<linkVars, pipeVars, condVars, bleParse, weeklyData, lastScore, ble>>

ConfigNext ==
  \/ \E upd \in Esp32Updates : SaveConfig(upd)
  \/ \E ip \in ConfigAddresses, port \in ConfigPorts : UpdateESP32Config(ip, port)
  \/ LoadConfig
  \/ ResetToDefaults

ConfigSpec == Init /\ [][ConfigNext]_vars

-----------------------------------------------------------------------------
\* The orchestrator's mock data stream (demo mode of the device screen)

\* what the generator produces: 60-100 bpm, 36-37.5 C, 0.5-5.5 uS, finger
\* always on; one time in ten 100-130 bpm and 5-10 uS
MockReadings ==
  { [heartRate |-> 80, temperature |-> 365, eda |-> 2, fingerDetected |-> TRUE],
    [heartRate |-> 120, temperature |-> 370, eda |-> 9, fingerDetected |-> TRUE] }

\* startMockDataStream(): setInterval, the handle stored over whatever the
\* ref held; isConnected true; connectedDevice the mock device
StartMockDataStream ==
  /\ Cardinality(mockTimers) < MaxMockTimers
  /\ LET t == CHOOSE x \in 1..MaxMockTimers : x \notin mockTimers
     IN /\ mockTimers' = mockTimers \cup {t}
        /\ predictionIntervalRef' = t
  /\ ctxIsConnected' = TRUE
  /\ connectedDevice' = "mock-device"
  /\ UNCHANGED <<arrived, handlers, sensorData, prediction, mlHistory, storedReadings,
                 storedPredictions, storedEpisodes, lastPredict, synthetic, storeLog>>
  /\ UNCHANGED <<linkVars, condVars, appVars>>

\* stopMockDataStream(): clears the interval the ref holds
StopMockDataStream ==
  /\ IF predictionIntervalRef # NoTimer
       THEN /\ mockTimers' = mockTimers \ {predictionIntervalRef}
            /\ predictionIntervalRef' = NoTimer
       ELSE UNCHANGED <<mockTimers, predictionIntervalRef>>
  /\ ctxIsConnected' = FALSE
  /\ connectedDevice' = "null"
  /\ UNCHANGED <<arrived, handlers, sensorData, prediction, mlHistory, storedReadings,
                 storedPredictions, storedEpisodes, lastPredict, synthetic, storeLog>>
  /\ UNCHANGED <<linkVars, condVars, appVars>>

\* a mock interval fires: handleSensorData(mockData), not awaited
MockTick(t, data) ==
  /\ t \in mockTimers
  /\ HandleSensorData(data)
  /\ synthetic' = synthetic \cup {arrived + 1}
  /\ UNCHANGED mockVars

MockNext ==
  \/ StartMockDataStream
  \/ StopMockDataStream
  \/ \E t \in 1..MaxMockTimers, data \in MockReadings : MockTick(t, data)
  \/ \E h \in ReadingIds : ReadingsGet(h)
  \/ \E h \in ReadingIds : ReadingsSet(h)
  \/ \E h \in ReadingIds : PredictionsGet(h)
  \/ \E h \in ReadingIds : PredictionsSet(h)

MockSpec == Init /\ [][MockNext]_vars

-----------------------------------------------------------------------------
\* The device screen in demo mode: the mock stream and the Disconnect button

\* disconnectDevice(): ESP32WiFiService.disconnect(), then the orchestrator's
\* connection state, reading and prediction go back to their defaults.  The
\* mock interval is not touched.
DisconnectDevice ==
  /\ DisconnectBody
  /\ last' = [Step("disconnect", Emit(<<"conn_false">>), "ok", "", "none")
                EXCEPT !.preOp = last.op]
  /\ UNCHANGED <<phase, pollingRate, maxConsecutiveFailures, inflight, connPc,
                 probeTarget, probed, failRun, session, lostErrors>>
  /\ ctxIsConnected' = FALSE
  /\ connectedDevice' = "null"
  /\ sensorData' = 0
  /\ prediction' = DEFAULT_PREDICTION
  /\ UNCHANGED <<arrived, handlers, mlHistory, storedReadings, storedPredictions,
                 storedEpisodes, lastPredict, mockTimers, predictionIntervalRef,
                 synthetic, storeLog>>
  /\ UNCHANGED <<condVars, appVars>>

DemoNext ==
  \/ MockNext
  \/ DisconnectDevice

DemoSpec == Init /\ [][DemoNext]_vars

-----------------------------------------------------------------------------
\* The weekly history screen (WeeklyHistory.loadWeeklyData).  Of a day only
\* the counts are kept: how many predictions, how many of them Calm; the
\* confidence shown and the date labels are left out.

\* a labelling whose last edge lies at 0.5
Severity_HalfEdge(calmCount, total) ==
  LET nonCalm == total - calmCount
  IN IF 100 * nonCalm < 15 * total THEN "All Calm"
     ELSE IF 100 * nonCalm < 35 * total THEN "Mostly Calm"
     ELSE IF 10 * nonCalm < 5 * total THEN "Moderate"
     ELSE "Elevated"

\* a labelling whose edges belong to the milder label
Severity_EdgeInclusive(calmCount, total) ==
  LET nonCalm == total - calmCount
  IN IF 100 * nonCalm <= 15 * total THEN "All Calm"
     ELSE IF 100 * nonCalm <= 35 * total THEN "Mostly Calm"
     ELSE IF 10 * nonCalm <= 6 * total THEN "Moderate"
     ELSE "Elevated"

\* the severity label of a day, from the non-calm ratio (total - calmCount) /
\* total compared as whole numbers: < 0.15, < 0.35, < 0.6, else
Severity(calmCount, total) ==
  LET nonCalm == total - calmCount
  IN IF 100 * nonCalm < 15 * total THEN "All Calm"
     ELSE IF 100 * nonCalm < 35 * total THEN "Mostly Calm"
     ELSE IF 10 * nonCalm < 6 * total THEN "Moderate"
     ELSE "Elevated"

SeverityColor(severity) ==
  CASE severity \in {"All Calm", "Mostly Calm"} -> "#22c55e"
    [] severity = "Moderate" -> "#f59e0b"
    [] OTHER -> "#ef4444"

\* the predictions a day is summarised from: the stored ones of that day, or,
\* when there are none, the generated ones
DayPreds(day) ==
  IF day.total > 0 THEN [total |-> day.total, calmCount |-> day.calmCount]
  ELSE [total |-> day.fakeTotal, calmCount |-> day.fakeCalm]

DaySummary(day) ==
  LET preds == DayPreds(day)
      severity == Severity(preds.calmCount, preds.total)
  IN [total |-> preds.total, calmCount |-> preds.calmCount, severity |-> severity,
      color |-> SeverityColor(severity)]

\* the days of a week, six days ago first
WeekDays == 1..7

\* how many predictions the days of a week hold: few, a round number, the
\* retention cap
DayTotals == {1, 7, 20, 40, 500}

\* the generator makes 30 to 149 predictions for a day without any
FakeTotals == {30, 100}

\* a week: every third day has nothing stored and is generated; the Calm counts
\* run through the days
Week(shift, total, fakeTotal) ==
  [d \in WeekDays |->
     IF (d + shift) % 3 = 0
       THEN [total |-> 0, calmCount |-> 0, fakeTotal |-> fakeTotal,
             fakeCalm |-> (shift + 3 * d) % (fakeTotal + 1)]
       ELSE [total |-> total, calmCount |-> (13 * shift + 4 * d) % (total + 1),
             fakeTotal |-> 0, fakeCalm |-> 0]]

WeekShifts == 0..20

\* loadWeeklyData(): the seven days are summarised and shown
LoadWeeklyData(week) ==
  /\ weeklyData' = [d \in WeekDays |-> DaySummary(week[d])]
  /\ UNCHANGED <<linkVars, pipeVars, condVars, bleParse, lastScore, ble, cfg>>

WeeklyNext ==
  \E shift \in WeekShifts, total \in DayTotals, fakeTotal \in FakeTotals :
    LoadWeeklyData(Week(shift, total, fakeTotal))

WeeklySpec == Init /\ [][WeeklyNext]_vars

-----------------------------------------------------------------------------
\* The store used alone (StorageService): appends made one after the other,
\* each finished before the next begins.  A store is the three collections.

\* saveSensorReading(reading), start to end
StoreSaveReading(st, id) ==
  [st EXCEPT !.readings = SliceLast(Append(@, id), MAX_STORED_READINGS)]

\* saveStressEpisode(episode), start to end
StoreSaveEpisode(st, id) ==
  [st EXCEPT !.episodes = SliceLast(Append(@, id), MAX_STORED_EPISODES)]

\* a savePrediction that records an episode whatever the state
StoreSavePrediction_EveryState(st, entry) ==
  StoreSaveEpisode([st EXCEPT !.predictions =
                                SliceLast(Append(@, entry), MAX_STORED_PREDICTIONS)],
                   entry.reading)

\* savePrediction(prediction), start to end
StoreSavePrediction(st, entry) ==
  LET saved == [st EXCEPT !.predictions =
                              SliceLast(Append(@, entry), MAX_STORED_PREDICTIONS)]
  IN IF entry.state = "Stressed" \/ entry.state = "Meltdown"
       THEN StoreSaveEpisode(saved, entry.reading)
       ELSE saved

\* the n-th prediction of a history of calmFirst Calm predictions, then
\* stressed Stressed ones, then Calm ones
HistoryEntry(hist, n) ==
  [reading |-> n,
   state |-> IF n > hist.calmFirst /\ n <= hist.calmFirst + hist.stressed
               THEN "Stressed" ELSE "Calm",
   confidence |-> 0]

HistoryPredictions(hist) ==
  [n \in 1..(hist.calmFirst + hist.stressed + hist.calmLast) |-> HistoryEntry(hist, n)]

\* the store after the predictions lo..hi of a log were saved in turn,
\* starting from the store st (the range is replayed half by half, the first
\* half computed before the second is begun)
RECURSIVE ReplayPredictions(_, _, _, _)
ReplayPredictions(st, log, lo, hi) ==
  IF lo > hi THEN st
  ELSE IF lo = hi THEN StoreSavePrediction(st, log[lo])
  ELSE LET mid == (lo + hi) \div 2
           half == ReplayPredictions(st, log, lo, mid)
       IN IF half = st THEN ReplayPredictions(st, log, mid + 1, hi)
                       ELSE ReplayPredictions(half, log, mid + 1, hi)

\* the store after the readings lo..hi were saved in turn, starting from st
RECURSIVE ReplayReadings(_, _, _)
ReplayReadings(st, lo, hi) ==
  IF lo > hi THEN st
  ELSE IF lo = hi THEN StoreSaveReading(st, lo)
  ELSE LET mid == (lo + hi) \div 2
           half == ReplayReadings(st, lo, mid)
       IN IF half = st THEN ReplayReadings(st, mid + 1, hi)
                       ELSE ReplayReadings(half, mid + 1, hi)

\* the histories the sequential runs start from: none; 1000 readings and 499
\* predictions of which the last 200 were Stressed; 1000 readings and 500
\* predictions of which the first was Stressed
StoreHistories ==
  { [readings |-> 0, calmFirst |-> 0, stressed |-> 0, calmLast |-> 0],
    [readings |-> 1000, calmFirst |-> 299, stressed |-> 200, calmLast |-> 0],
    [readings |-> 1000, calmFirst |-> 0, stressed |-> 1, calmLast |-> 499] }

StoreInit ==
  /\ InitServices
  /\ \E hist \in StoreHistories :
       LET log == HistoryPredictions(hist)
           st == ReplayReadings(ReplayPredictions(EmptyStore, log, 1, Len(log)),
                                1, hist.readings)
       IN /\ storedReadings = st.readings
          /\ storedPredictions = st.predictions
          /\ storedEpisodes = st.episodes
          /\ storeLog = [readings |-> [i \in 1..hist.readings |-> i], predictions |-> log,
                         appends |-> 0]

CurrentStore ==
  [readings |-> storedReadings, predictions |-> storedPredictions,
   episodes |-> storedEpisodes]

StoreUnchanged ==
  /\ UNCHANGED <<arrived, handlers, sensorData, prediction, mlHistory, lastPredict,
                 synthetic, mockVars>>
  /\ UNCHANGED <<linkVars, condVars, appVars>>

\* one more reading saved
AppendReading ==
  /\ storeLog.appends < MaxAppends
  /\ LET id == Len(storeLog.readings) + 1
         st == StoreSaveReading(CurrentStore, id)
     IN /\ storedReadings' = st.readings
        /\ storeLog' = [storeLog EXCEPT !.readings = Append(@, id), !.appends = @ + 1]
  /\ UNCHANGED <<storedPredictions, storedEpisodes>>
  /\ StoreUnchanged

\* one more prediction saved
AppendPrediction(state) ==
  LET entry == [reading |-> Len(storeLog.predictions) + 1, state |-> state,
                confidence |-> 0]
      st == StoreSavePrediction(CurrentStore, entry)
  IN /\ storeLog.appends < MaxAppends
     /\ storedPredictions' = st.predictions
     /\ storedEpisodes' = st.episodes
     /\ storeLog' = [storeLog EXCEPT !.predictions = Append(@, entry), !.appends = @ + 1]
     /\ UNCHANGED storedReadings
     /\ StoreUnchanged

\* the states savePrediction is called with in the sequential runs
StoredStates == {"Calm", "Stressed", "Meltdown"}

StoreNext ==
  \/ AppendReading
  \/ \E state \in StoredStates : AppendPrediction(state)

StoreSpec == StoreInit /\ [][StoreNext]_vars

\* MIND_STATES: every state a prediction given to savePrediction can have
MindStates == {"Calm", "Stressed", "Meltdown", "Amusement", "Unknown"}

\* sequential saves of predictions of every state
FrameNext ==
  \/ AppendReading
  \/ \E state \in MindStates : AppendPrediction(state)

FrameSpec == StoreInit /\ [][FrameNext]_vars

-----------------------------------------------------------------------------
\* Properties of the link manager (Spec)

ErrorCallbackInvoked == \E i \in 1..Len(last.emitted) : last.emitted[i] = "error_lost"

ForcedDisconnect == last.op = "pollFail" /\ last.result = "forced"

\* C1: the manager force-disconnects exactly when the failure that brings the
\* counter to maxConsecutiveFailures is handled, and between two successful
\* connects the 'Lost connection' error reaches the error callback at most once:
\* failures handled after the forced disconnect do not raise it again.
C1_LostConnectionOnce ==
  /\ last.op = "pollFail" =>
       (last.result = "forced" <=> last.preFailures + 1 = maxConsecutiveFailures)
  /\ lostErrors <= 1

\* C2: a successful poll leaves consecutiveFailures at 0, and a forced
\* disconnect happens only when at least maxConsecutiveFailures failed polls
\* were handled with no successful poll between them.
C2_SuccessResets ==
  /\ last.op = "pollData" => consecutiveFailures = 0
  /\ ForcedDisconnect => failRun >= maxConsecutiveFailures

\* a successful poll handled on a connected link after failures were counted
C2_Witness ==
  /\ last.op = "pollData"
  /\ last.preFailures >= 2
  /\ last.preConnected
  /\ isConnected
  /\ consecutiveFailures = 0

\* C3: on a connected link at most one fetch-and-dispatch cycle of the manager
\* is in progress at any moment: a tick never starts a fetch while an earlier
\* one awaits its response.
C3_NoOverlappingFetch == isConnected => InFlightCount <= 1

\* C5: at most one polling timer is active, and it is the one the manager
\* holds in pollingInterval.
C5_OneTimer ==
  /\ Cardinality(activeTimers) <= 1
  /\ activeTimers = IF pollingInterval = NoTimer THEN {} ELSE {pollingInterval}

\* polling was started while a timer existed, and one timer is active
C5_Witness ==
  /\ last.op \in {"startPolling", "connectOk"}
  /\ last.preTimer # NoTimer
  /\ pollingInterval # NoTimer

\* C6: the link becomes Connected only in the step in which a connect() call
\* handles a probe response; a polling timer comes into being only in such a
\* step or in an explicit startPolling() call; and after disconnect(), destroy()
\* or a forced disconnect the link is not connected and no timer is active.
C6_NoAutoReconnect ==
  [][ /\ (~isConnected /\ isConnected') =>
           (last'.op = "connectOk" /\ last'.probe \in Responses)
      /\ (pollingInterval = NoTimer /\ pollingInterval' # NoTimer) =>
           last'.op \in {"connectOk", "startPolling"}
      /\ (last'.op \in {"disconnect", "destroy"} \/ last'.result = "forced") =>
           (~isConnected' /\ pollingInterval' = NoTimer /\ activeTimers' = {}) ]_vars

\* a reading of a fetch that was in flight arrives after the forced disconnect,
\* and the link stays disconnected, without a timer
C6_Witness ==
  /\ last.op = "pollData"
  /\ lostErrors = 1
  /\ ~isConnected
  /\ pollingInterval = NoTimer

\* C7, as claimed: every failed poll of a connected link increments the counter
\* and invokes the error callback; every successful poll resets the counter and
\* invokes the data callback.
C7_ErrorOnEveryFailure ==
  /\ (last.op = "pollFail" /\ last.preConnected) =>
       /\ ErrorCallbackInvoked
       /\ last.result # "forced" => consecutiveFailures = last.preFailures + 1
  /\ last.op = "pollData" => (consecutiveFailures = 0 /\ last.emitted = <<"data">>)

\* C7, amended: every failed poll increments the counter; the error callback is
\* invoked only by the failure that brings the counter to
\* maxConsecutiveFailures (after the forced disconnect, which notifies the
\* connection callback with false and leaves the counter at 0), and by no
\* failure below the threshold; every successful poll resets the counter and
\* invokes the data callback.
C7_ErrorOnlyAtThreshold ==
  /\ last.op = "pollFail" =>
       IF last.preFailures + 1 >= maxConsecutiveFailures
         THEN /\ last.result = "forced"
              /\ last.emitted = <<"conn_false", "error_lost">>
              /\ last.error = MsgLost
              /\ consecutiveFailures = 0
         ELSE /\ last.result = "none"
              /\ last.emitted = <<>>
              /\ consecutiveFailures = last.preFailures + 1
  /\ last.op = "pollData" => (consecutiveFailures = 0 /\ last.emitted = <<"data">>)

\* a failed poll below the threshold on a connected link: counted, no callback
C7_Witness ==
  /\ last.op = "pollFail"
  /\ last.result = "none"
  /\ last.emitted = <<>>
  /\ isConnected
  /\ consecutiveFailures = last.preFailures + 1
  /\ consecutiveFailures + 1 < maxConsecutiveFailures

\* the class of a connect() error message
ErrorClass(msg) ==
  IF msg = MsgTimeout THEN "timeout"
  ELSE IF msg = MsgNetwork THEN "network-unreachable"
  ELSE "generic-unreachable"

\* the class of the error the last candidate ended in
OutcomeClass(e) ==
  IF e = "timeout" THEN "timeout"
  ELSE IF e = "network" THEN "network-unreachable"
  ELSE "generic-unreachable"

\* C8: a connect() whose candidates all ended without a response returns a
\* failure result (it does not throw) whose message is the timeout, the
\* network-unreachable or a generic-unreachable message according to the error of
\* the last candidate, the three classes having different messages, and the
\* link is not connected afterwards, whatever it was before.
C8_ConnectFailure ==
  last.op = "connectFail" =>
    /\ last.probe \in NoResponses
    /\ last.probes = Len(Endpoints)
    /\ last.result = "fail"
    /\ last.error # ""
    /\ ErrorClass(last.error) = OutcomeClass(last.probe)
    /\ ~isConnected

\* connect() to an unreachable address, called on a connected link, timed out
C8_Witness ==
  /\ last.op = "connectFail"
  /\ last.preConnected
  /\ last.probe = "timeout"
  /\ last.error = MsgTimeout
  /\ ~isConnected

\* C9: the candidates are requested in the order of Endpoints; the step that
\* handles a response of any status ends the call with success, the link
\* Connected and the polling timer started, and requests no later candidate; a
\* candidate without a response is followed by the next one, and the call fails
\* only after the fourth.
C9_ProbeOrder ==
  [][ /\ connPc' = "probing" =>
           (Len(probed') >= 1 /\ probed' = SubSeq(Endpoints, 1, Len(probed')))
      /\ (connPc = "probing" /\ (connPc' = "idle" \/ probed' # probed)) =>
           /\ last'.probe \in ProbeOutcomes
           /\ last'.probe \in Responses <=> last'.op = "connectOk"
           /\ last'.op = "connectOk" =>
                /\ connPc' = "idle"
                /\ last'.result = "ok"
                /\ isConnected'
                /\ pollingInterval' # NoTimer
                /\ pollingInterval' \in activeTimers'
           /\ (last'.probe \in NoResponses /\ Len(probed) < Len(Endpoints)) =>
                /\ connPc' = "probing"
                /\ probed' = Append(probed, Endpoints[Len(probed) + 1])
           /\ (last'.probe \in NoResponses /\ Len(probed) = Len(Endpoints)) =>
                (last'.op = "connectFail" /\ last'.result = "fail") ]_vars

\* the third candidate answered with an error status after two gave no response
C9_Witness ==
  /\ last.op = "connectOk"
  /\ last.probe = "httpError"
  /\ last.probes = 3
  /\ isConnected
  /\ pollingInterval \in activeTimers

\* C10: after disconnect() (and destroy()) the manager is in the same state
\* whatever it was before: not connected, no timer, no address, counter 0, no
\* device info; the call returns success and notifies the connection callback
\* with false.
C10_DisconnectIdempotent ==
  last.op \in {"disconnect", "destroy"} =>
    /\ ~isConnected
    /\ pollingInterval = NoTimer
    /\ activeTimers = {}
    /\ deviceIP = NoIP
    /\ consecutiveFailures = 0
    /\ deviceInfo = "null"
    /\ last.result = "ok"
    /\ last.emitted = <<"conn_false">>

\* disconnect() called right after a disconnect()
C10_Witness ==
  /\ last.op = "disconnect"
  /\ last.preOp = "disconnect"
  /\ ~last.preConnected
  /\ last.preTimer = NoTimer
  /\ last.emitted = <<"conn_false">>

-----------------------------------------------------------------------------
\* Properties of the data handler (PipeSpec)

NoneActive == \A h \in ReadingIds : ~Active(h)

\* the readings 1..n in arrival order
ArrivalOrder(n) == [i \in 1..n |-> i]

\* the finger-present readings among 1..n, in arrival order
RECURSIVE Classified(_)
Classified(n) ==
  IF n = 0 THEN <<>>
  ELSE IF handlers[n].data.fingerDetected THEN Append(Classified(n - 1), n)
       ELSE Classified(n - 1)

\* C4: readings are processed in arrival order: once the handlers of the
\* readings handed over so far have returned, the persisted readings are those
\* readings in arrival order, and the persisted predictions are those of the
\* finger-present readings, in arrival order.
C4_ArrivalOrder ==
  NoneActive =>
    /\ storedReadings = ArrivalOrder(arrived)
    /\ [i \in 1..Len(storedPredictions) |-> storedPredictions[i].reading]
         = Classified(arrived)

-----------------------------------------------------------------------------
\* Properties of the classifier (ClassifySpec)

\* C13: whenever predict() returns Meltdown, the reading it was called with
\* reached at least the high tier on both ladders: (hrHigh or hrCritical) and
\* (edaHigh or edaCritical).
C13_MeltdownBothHigh ==
  (lastPredict.called /\ lastPredict.result.state = "Meltdown") =>
    LET ind == Indicators(lastPredict.data.heartRate, lastPredict.data.temperature,
                          lastPredict.data.eda)
    IN (ind.hrHigh \/ ind.hrCritical) /\ (ind.edaHigh \/ ind.edaCritical)

MostFrequent(hist, st) ==
  /\ \E i \in 1..Len(hist) : hist[i].state = st
  /\ \A i \in 1..Len(hist) : CountOf(hist, st) >= CountOf(hist, hist[i].state)

\* C15: the window holds at most 5 unsmoothed results; when it holds at least
\* 2, the returned state is a most frequent state of the window, and it is the
\* state just computed whenever that state is among the most frequent; the
\* returned confidence is the mean of the window's confidences.
C15_ModeTieKeepsCurrent ==
  /\ Len(mlHistory) <= SMOOTHING_WINDOW
  /\ (lastPredict.accepted /\ Len(lastPredict.window) >= 2) =>
       /\ MostFrequent(lastPredict.window, lastPredict.result.state)
       /\ MostFrequent(lastPredict.window, lastPredict.raw.state) =>
            lastPredict.result.state = lastPredict.raw.state
       /\ lastPredict.result.confidence * Len(lastPredict.window)
            = TotalConfidence(lastPredict.window)

-----------------------------------------------------------------------------
\* Properties of the store under the data handler (PipeSpec, MockSpec)

\* C19: two appends to the same collection that overlap in time are both kept:
\* once the handlers have returned, every reading handed over is among the
\* stored readings and every finger-present one among the stored predictions.
C19_NoLostAppend ==
  NoneActive =>
    /\ \A h \in 1..arrived : \E i \in 1..Len(storedReadings) : storedReadings[i] = h
    /\ \A h \in 1..arrived : handlers[h].data.fingerDetected =>
          \E i \in 1..Len(storedPredictions) : storedPredictions[i].reading = h

\* C20: no stored prediction is one of a reading the mock stream produced.
C20_NoSyntheticPersisted ==
  \A i \in 1..Len(storedPredictions) : storedPredictions[i].reading \notin synthetic

-----------------------------------------------------------------------------
\* Properties of the store used alone (StoreSpec)

IsEpisode(entry) == entry.state \in {"Stressed", "Meltdown"}

\* the ids of the Stressed and Meltdown predictions of a log, oldest first
EpisodesOf(log) ==
  LET eps == SelectSeq(log, IsEpisode)
  IN [i \in 1..Len(eps) |-> eps[i].reading]

\* the last n entries of a log, taken one by one from its end
LastOf(log, n) ==
  LET k == IF Len(log) < n THEN Len(log) ELSE n
  IN [i \in 1..k |-> log[Len(log) - k + i]]

C17_EpisodeHasPrediction ==
  \A e \in 1..Len(storedEpisodes) :
    \E i \in 1..Len(storedPredictions) : storedPredictions[i].reading = storedEpisodes[e]

\* C18: no step removes an episode whose prediction is still among the stored
\* predictions after the step.
C18_EpisodeOutlivesPrediction ==
  [][\A e \in 1..Len(storedEpisodes) :
       (\A k \in 1..Len(storedEpisodes') : storedEpisodes'[k] # storedEpisodes[e]) =>
          \A i \in 1..Len(storedPredictions') :
             storedPredictions'[i].reading # storedEpisodes[e]]_vars

-----------------------------------------------------------------------------
\* Properties of the conditioner (SessionSpec, CondSpec)

\* C11: after the link disconnected, by disconnect() or by the forced
\* disconnect after repeated failures, the HR buffer is empty, the EDA buffer
\* is empty and the previous acceleration magnitude is unset.
C11_DisconnectResetsConditioner ==
  ((last.op = "disconnect" \/ ForcedDisconnect) /\ last.preConnected) =>
    /\ hrBuffer = <<>>
    /\ edaBuffer = <<>>
    /\ prevAccelMag = NoAccelMag

\* the raw heart rate of the last call lies more than 25 from the mean of the
\* buffer the call found
FarFromMean ==
  LET before == lastParse.hrBefore
  IN Abs(lastParse.raw.heartRate * Len(before) - SumSeq(before)) > 25 * Len(before)

\* C14, as claimed: whenever the HR buffer holds at least 2 samples before a
\* reading, a raw heart rate more than 25 from the buffer mean is discarded and
\* the buffer is left unchanged by that reading; no value more than 25 from the
\* pre-insert mean is appended; the buffer never holds more than 6 samples.
C14_SpikeRejection ==
  /\ Len(hrBuffer) <= 6
  /\ Len(lastParse.hrBefore) >= 2 =>
       /\ FarFromMean => hrBuffer = lastParse.hrBefore
       /\ hrBuffer # lastParse.hrBefore =>
            (hrBuffer # <<>> /\ hrBuffer[Len(hrBuffer)] = lastParse.raw.heartRate
               /\ ~FarFromMean)

\* C14, amended: the same for a reading with the finger detected; a reading
\* without the finger empties the buffer.
C14_SpikeRejectionOnContact ==
  /\ Len(hrBuffer) <= 6
  /\ ~lastParse.out.fingerDetected => hrBuffer = <<>>
  /\ (lastParse.out.fingerDetected /\ Len(lastParse.hrBefore) >= 2) =>
       /\ FarFromMean => hrBuffer = lastParse.hrBefore
       /\ hrBuffer # lastParse.hrBefore =>
            (hrBuffer[Len(hrBuffer)] = lastParse.raw.heartRate /\ ~FarFromMean)

\* a full buffer met a heart rate 26 above its mean and stayed as it was
C14_Witness ==
  /\ lastParse.out.fingerDetected
  /\ Len(lastParse.hrBefore) = 6
  /\ FarFromMean
  /\ hrBuffer = lastParse.hrBefore

-----------------------------------------------------------------------------
\* Properties of demo mode (DemoSpec)

\* C21: whenever the pipeline starts on a reading the mock stream produced,
\* the connected device shown is the mock device.
C21_SyntheticUnderMockIdentity ==
  [][(arrived' = arrived + 1 /\ arrived' \in synthetic') =>
        connectedDevice = "mock-device"]_vars

-----------------------------------------------------------------------------
\* Properties of the weekly history screen (WeeklySpec)

\* the non-calm ratio of a shown day lies exactly on the edge num / den
OnEdge(day, num, den) == den * (day.total - day.calmCount) = num * day.total

\* C22, as claimed: a day whose non-calm ratio lies exactly on 0.15, 0.35 or 0.6
\* is labelled with the milder of the two adjacent labels.
C22_EdgeMilder ==
  \A d \in 1..Len(weeklyData) :
    /\ OnEdge(weeklyData[d], 15, 100) => weeklyData[d].severity = "All Calm"
    /\ OnEdge(weeklyData[d], 35, 100) => weeklyData[d].severity = "Mostly Calm"
    /\ OnEdge(weeklyData[d], 6, 10) => weeklyData[d].severity = "Moderate"

\* C22, amended: a day whose non-calm ratio lies exactly on 0.15, 0.35 or 0.6 is
\* labelled with the more severe of the two adjacent labels.
C22_EdgeMoreSevere ==
  \A d \in 1..Len(weeklyData) :
    /\ OnEdge(weeklyData[d], 15, 100) => weeklyData[d].severity = "Mostly Calm"
    /\ OnEdge(weeklyData[d], 35, 100) => weeklyData[d].severity = "Moderate"
    /\ OnEdge(weeklyData[d], 6, 10) => weeklyData[d].severity = "Elevated"

\* a week is shown with a day on each of the three edges
C22_Witness ==
  /\ \E d \in 1..Len(weeklyData) : OnEdge(weeklyData[d], 15, 100)
  /\ \E d \in 1..Len(weeklyData) : OnEdge(weeklyData[d], 35, 100)
  /\ \E d \in 1..Len(weeklyData) : OnEdge(weeklyData[d], 6, 10)

\* C23: every shown day has total > 0 and a label that depends on its Calm count
\* and its total only: All Calm below 0.15, Mostly Calm from 0.15 to below
\* 0.35, Moderate from 0.35 to below 0.6, Elevated from 0.6.
C23_SeverityBuckets ==
  \A d \in 1..Len(weeklyData) :
    LET day == weeklyData[d]
        nonCalm == day.total - day.calmCount
    IN /\ day.total > 0
       /\ day.calmCount \in 0..day.total
       /\ day.severity = "All Calm" <=> 100 * nonCalm < 15 * day.total
       /\ day.severity = "Mostly Calm" <=>
            (15 * day.total <= 100 * nonCalm /\ 100 * nonCalm < 35 * day.total)
       /\ day.severity = "Moderate" <=>
            (35 * day.total <= 100 * nonCalm /\ 10 * nonCalm < 6 * day.total)
       /\ day.severity = "Elevated" <=> 6 * day.total <= 10 * nonCalm

\* a week is shown whose days carry all four labels, one of them generated
C23_Witness ==
  /\ Len(weeklyData) = 7
  /\ \A label \in {"All Calm", "Mostly Calm", "Moderate", "Elevated"} :
       \E d \in 1..7 : weeklyData[d].severity = label
  /\ \E d \in 1..7 : weeklyData[d].total \in FakeTotals

-----------------------------------------------------------------------------
\* Properties of the classifier given malformed readings (ValidateSpec)

IsNumeric(v) == TypeofNumber(v) /\ ~IsNaN(v)

\* C24: a predict() call with a heart rate outside 40..200, or with a heart
\* rate, temperature or EDA that is not a number, returns Unknown with
\* confidence 0 and leaves the smoothing window as it was.
C24_RejectedLeavesWindow ==
  [][(lastPredict'.called /\ lastPredict' # lastPredict /\
        LET data == lastPredict'.data
        IN \/ ~IsNumeric(data.heartRate)
           \/ ~IsNumeric(data.temperature)
           \/ ~IsNumeric(data.eda)
           \/ data.heartRate < 40
           \/ data.heartRate > 200) =>
       /\ lastPredict'.result = NoResult
       /\ mlHistory' = mlHistory]_vars

-----------------------------------------------------------------------------
\* Properties of a poll whose body cannot be parsed (SessionSpec)

\* C25: a poll tick whose body parseSensorData cannot parse is skipped: the
\* connection state, the failure counter, the conditioner's buffers and the
\* classifier's window stay as they were, and neither the data callback nor the
\* error callback is invoked.
C25_UnparsedPollSkipped ==
  [][(last'.op = "pollNull" /\ inflight' # inflight) =>
       /\ isConnected' = isConnected
       /\ deviceIP' = deviceIP
       /\ pollingInterval' = pollingInterval
       /\ consecutiveFailures' = consecutiveFailures
       /\ hrBuffer' = hrBuffer
       /\ edaBuffer' = edaBuffer
       /\ prevAccelMag' = prevAccelMag
       /\ mlHistory' = mlHistory
       /\ last'.emitted = <<>>]_vars

\* an unparsed poll has been skipped while the manager was connected with
\* failures counted and readings in the conditioner's buffers
C25_Witness ==
  /\ last.op = "pollNull"
  /\ isConnected
  /\ consecutiveFailures > 0
  /\ hrBuffer # <<>>
  /\ edaBuffer # <<>>

-----------------------------------------------------------------------------
\* Properties of the conditioned heart rate (GarbledSpec)

\* C26: a conditioned reading has heart rate 0 when no finger is detected and
\* a heart rate within the display band 60..100 when one is; right after a
\* reading without finger the HR buffer is empty.
C26_DisplayBand ==
  /\ ~lastParse.out.fingerDetected =>
       lastParse.out.heartRate = 0 /\ hrBuffer = <<>>
  /\ lastParse.out.fingerDetected =>
       /\ lastParse.out.heartRate >= HR_DISPLAY_MIN
       /\ lastParse.out.heartRate <= HR_DISPLAY_MAX

-----------------------------------------------------------------------------
\* Properties of the stress score (ScoreSpec)

\* reading b is reading a with one of heart rate, EDA, temperature raised
RaisedInOneField(a, b) ==
  \/ b.heartRate > a.heartRate /\ b.eda = a.eda /\ b.temperature = a.temperature
  \/ b.eda > a.eda /\ b.heartRate = a.heartRate /\ b.temperature = a.temperature
  \/ b.temperature > a.temperature /\ b.heartRate = a.heartRate /\ b.eda = a.eda

\* C27: of two valid readings that differ in one of heart rate, EDA and
\* temperature only, the one with the larger value never has the smaller
\* stressScore.
C27_ScoreMonotone ==
  Len(lastScore) = 2 =>
    /\ RaisedInOneField(lastScore[1].data, lastScore[2].data) =>
         lastScore[2].stressScore >= lastScore[1].stressScore
    /\ RaisedInOneField(lastScore[2].data, lastScore[1].data) =>
         lastScore[1].stressScore >= lastScore[2].stressScore

\* two readings scored that differ in the temperature only, below both
\* temperature tiers, where the higher one earns the deviation bonus
C27_Witness ==
  /\ Len(lastScore) = 2
  /\ RaisedInOneField(lastScore[1].data, lastScore[2].data)
  /\ lastScore[1].data.temperature < lastScore[2].data.temperature
  /\ lastScore[2].data.temperature < 380
  /\ lastScore[2].stressScore > lastScore[1].stressScore

-----------------------------------------------------------------------------
\* Properties of the confidence returned by predict() (ValidateSpec)

\* a confidence within [0.40, 0.98]
InConfidenceBand(c) == c >= 4000 * ConfStep /\ c <= 9800 * ConfStep

ConfidenceInBand(res) ==
  IF res.state = "Unknown" THEN res.confidence = 0
  ELSE InConfidenceBand(res.confidence)

\* C28: after any sequence of accepted and rejected readings, a result of
\* predict() whose state is not Unknown has a confidence within [0.40, 0.98],
\* unsmoothed and smoothed alike, and an Unknown result has confidence 0.
C28_ConfidenceBand ==
  lastPredict.called =>
    /\ ConfidenceInBand(lastPredict.raw)
    /\ ConfidenceInBand(lastPredict.result)

-----------------------------------------------------------------------------
\* Properties of the BLE link manager's reconnection (BleSpec)

\* reconnectAttempts stays within the cap
BleAttemptsCapped == ble.reconnectAttempts <= maxReconnectAttempts

\* C29: reconnectAttempts never exceeds maxReconnectAttempts, and when the
\* device stays out of reach after it dropped the link the manager retries up
\* to the cap and then gives the error callback 'Failed to reconnect'.
C29_ReconnectEndsInError ==
  /\ []BleAttemptsCapped
  /\ (~ble.reachable) ~> (ble.fatal \/ ble.reachable)

-----------------------------------------------------------------------------
\* Properties of the configuration manager (ConfigSpec)

\* C30: after saveConfig with a partial esp32 object or updateESP32Config(ip,
\* port), every esp32 setting the call did not name still resolves through the
\* getters, to the value it had before or to its default, without a reload.
C30_UnnamedSettingsKept ==
  [][(cfg' # cfg /\ cfg'.op \in {"saveConfig", "updateESP32Config"}) =>
       \A name \in Esp32Settings \ cfg'.named :
         /\ Resolved(cfg', name) # Undefined
         /\ Resolved(cfg', name) \in {Resolved(cfg, name), AppConfigEsp32[name]}]_vars

-----------------------------------------------------------------------------
\* Properties of finger detection (ContactSpec)

\* the strategy the body calls for, by priority: the flag, the IR value, the
\* heart rate
ContactByPriority(raw) ==
  IF raw.finger # "none" THEN raw.finger = "yes"
  ELSE IF raw.ir # NoField THEN raw.ir > 50000
  ELSE raw.heartRate >= 40 /\ raw.heartRate <= 200

\* C31: contact is decided by exactly one strategy per reading: the explicit
\* flag when present, else the IR value (contact iff above 50000) when
\* present, else the raw heart rate (contact iff within 40..200); an input of
\* lower priority never changes the result.  In both parsers.
C31_ContactPriority ==
  /\ lastParse.out.fingerDetected = ContactByPriority(lastParse.raw)
  /\ bleParse.raw.format = "json" =>
       bleParse.out.fingerDetected = ContactByPriority(bleParse.raw)

\* both parsers found a finger by the flag against an IR value and a heart
\* rate that speak against it
C31_Witness ==
  /\ lastParse.raw.finger = "yes" /\ lastParse.raw.ir = 50000
  /\ lastParse.raw.heartRate = 201 /\ lastParse.out.fingerDetected
  /\ bleParse.raw.finger = "none" /\ bleParse.raw.ir = 50001
  /\ bleParse.raw.heartRate = 39 /\ bleParse.out.fingerDetected

-----------------------------------------------------------------------------
\* Properties of motion detection (MotionSpec)

\* the accelerometer of the body shows motion against the magnitude before
AccelMoves(raw, prev) ==
  /\ raw.accel # <<>>
  /\ \/ Abs(Magnitude(raw.accel) - 1000) > 150
     \/ prev # NoAccelMag /\ Abs(Magnitude(raw.accel) - prev) > 120

GyroMoves(raw) == raw.gyro # <<>> /\ Magnitude(raw.gyro) > 30

\* a body was parsed in this step
Parsed == lastParse' # lastParse \/ prevAccelMag' # prevAccelMag

\* C32: an explicit motion flag decides alone; without it, when accelerometer
\* data is present the accelerometer alone decides (deviation from 1.0 g above
\* 0.15 g, or jerk above 0.12 g), and the gyroscope threshold (30 deg/s) is
\* used only when there is no accelerometer data.
C32_GyroOnlyWithoutAccel ==
  [][Parsed =>
       LET raw == lastParse'.raw
           motion == lastParse'.out.motion
       IN /\ raw.motion # "none" => motion = (raw.motion = "yes")
          /\ (raw.motion = "none" /\ raw.accel # <<>>) =>
               motion = AccelMoves(raw, prevAccelMag)
          /\ (raw.motion = "none" /\ raw.accel = <<>>) => motion = GyroMoves(raw)]_vars

\* C32 as the code has it: an explicit motion flag decides alone; without it
\* the accelerometer is read first, and the gyroscope threshold is used when
\* there is no accelerometer data or the accelerometer shows no motion.
C32_GyroWhenAccelQuiet ==
  [][Parsed =>
       LET raw == lastParse'.raw
           motion == lastParse'.out.motion
       IN /\ raw.motion # "none" => motion = (raw.motion = "yes")
          /\ (raw.motion = "none" /\ AccelMoves(raw, prevAccelMag)) => motion
          /\ (raw.motion = "none" /\ ~AccelMoves(raw, prevAccelMag)) =>
               motion = GyroMoves(raw)]_vars

\* a body with the accelerometer at rest and the gyroscope above the threshold
\* was parsed after another body at rest: motion by the gyroscope
C32_Witness ==
  /\ lastParse.raw.motion = "none"
  /\ lastParse.raw.accel = <<0, 0, 1000>>
  /\ prevAccelMag = 1000
  /\ lastParse.raw.gyro = <<0, 0, 31>>
  /\ lastParse.out.motion

-----------------------------------------------------------------------------
\* Properties of one savePrediction (FrameSpec)

-----------------------------------------------------------------------------
\* Properties of the link's timer, address and late fetches (SessionSpec)

\* C34: whenever the polling timer is active the link is connected; after a
\* connect() that failed, also one issued to a new address while connected
\* and polling, no polling timer is left running.
C34_TimerImpliesConnected ==
  /\ pollingInterval # NoTimer => isConnected
  /\ last.op = "connectFail" => (pollingInterval = NoTimer /\ activeTimers = {})


\* C35: whenever the link is connected a device address is set, and a
\* disconnect() issued while a connect() probe is in flight wins: when both
\* have finished the link is disconnected and no polling timer is active.
\* disconnect() clears the address and only a new connect() call sets one, so
\* a connect() that finishes connected after such a disconnect() is connected
\* without an address.
C35_ConnectedHasAddress ==
  /\ isConnected => deviceIP # NoIP
  /\ (connPc = "idle" /\ deviceIP = NoIP) =>
       (~isConnected /\ pollingInterval = NoTimer)


\* the link as disconnect() leaves it, no connect() called since
Disconnected == ~isConnected /\ deviceIP = NoIP /\ pollingInterval = NoTimer

\* C36: after disconnect() has run, manual or forced, a fetch that was in
\* flight has no further effect when it completes: no reading goes to the data
\* callback and the failure counter stays 0 until the next successful connect.
C36_LateFetchIgnored ==
  [][(Disconnected /\ inflight' # inflight
        /\ last'.op \in {"pollData", "pollNull", "pollFail"}) =>
       /\ last'.emitted = <<>>
       /\ consecutiveFailures' = 0]_vars


-----------------------------------------------------------------------------
\* The data handler and the Disconnect button together: readings arrive, their
\* handlers wait on the store, and disconnectDevice() may run in between.

HandlerNext ==
  \/ PipeNext
  \/ DisconnectDevice

HandlerSpec == Init /\ [][HandlerNext]_vars

\* what the orchestrator should show for the newest event: the defaults when
\* disconnectDevice() ran after the newest reading (it clears sensorData) or
\* when that reading had no finger, else a classification of that reading
NewestShown ==
  IF sensorData = 0 \/ ~handlers[arrived].data.fingerDetected
  THEN prediction = DEFAULT_PREDICTION
  ELSE prediction.reading = arrived

\* C37: once every handleSensorData invocation has returned, the current
\* classification is the one of the most recently received reading; the
\* handler of an older reading that was still waiting for the store has not
\* overwritten the classification, or the Unknown reset (no finger,
\* disconnect), that belongs to the newer event.
C37_NewestReadingShown ==
  (NoneActive /\ arrived > 0) => NewestShown


-----------------------------------------------------------------------------
\* The polling pipeline from body to classification: fetchSensorData() hands
\* the body to parseSensorData(), the reading goes to handleSensorData(), which
\* calls MLModelService.predict() when a finger is detected.  The store writes
\* of the handler are left out here.

\* a body with the finger flag set; EDA in hundredths, temperature in tenths
ChainPayload(hr, eda, temp) ==
  [Payload(hr, eda, "yes", <<>>) EXCEPT !.temperature = temp]

\* bodies with critical EDA (20 microsiemens) and high temperature (39.5 C) at
\* a resting heart rate and at one far above every tier; the latter also
\* without EDA; the quiet body
ChainPayloads ==
  {ChainPayload(70, 2000, 395), ChainPayload(180, 2000, 395),
   ChainPayload(180, 0, 395), QuietPayload}

\* the reading predict() sees: the conditioner's EDA is whole in these bodies
ConditionedReading(out) ==
  Reading(out.heartRate, out.temperature, out.eda \div 100)

\* one poll: parseSensorData(raw), then predict() on the conditioned reading
PollAndPredict(raw) ==
  LET out == ParseSensorData(raw, hrBuffer, edaBuffer, prevAccelMag).out
      p == Predict(mlHistory, ConditionedReading(out))
  IN /\ ParseStep(raw)
     /\ IF out.fingerDetected
          THEN /\ mlHistory' = p.history
               /\ lastPredict' = PredictCallRecord(ConditionedReading(out), p)
          ELSE UNCHANGED <<mlHistory, lastPredict>>
     /\ UNCHANGED <<arrived, handlers, sensorData, prediction, storedReadings,
                    storedPredictions, storedEpisodes, synthetic>>
     /\ UNCHANGED <<linkVars, mockVars, storeLog, appVars>>

ChainNext == \E raw \in ChainPayloads : PollAndPredict(raw)

ChainSpec == Init /\ [][ChainNext]_vars

-----------------------------------------------------------------------------
\* The mock stream's intervals

\* C39: at most one mock interval is active at any time, and once
\* stopMockDataStream() has returned (the ref holds no handle) none is left to
\* hand a generated reading to the pipeline, however often
\* startMockDataStream() was called before.
C39_OneMockTimer ==
  /\ Cardinality(mockTimers) <= 1
  /\ predictionIntervalRef = NoTimer => mockTimers = {}


-----------------------------------------------------------------------------
\* The orchestrator's connection status next to the link manager's: the
\* connection callback (handleConnectionChange), disconnectDevice() and the
\* mock stream all write the orchestrator's isConnected.  The polls of these
\* runs bring no reading: the device answers with a body that cannot be parsed,
\* or not at all.

\* handleConnectionChange(connected, device), called by the step that ran last
\* for each connection notification it made; device.id is the address
HandleConnectionChange ==
  IF \E i \in 1..Len(last'.emitted) : last'.emitted[i] = "conn_true"
    THEN /\ ctxIsConnected' = TRUE
         /\ connectedDevice' = deviceIP'
  ELSE IF \E i \in 1..Len(last'.emitted) : last'.emitted[i] = "conn_false"
    THEN /\ ctxIsConnected' = FALSE
         /\ connectedDevice' = "null"
  ELSE UNCHANGED <<ctxIsConnected, connectedDevice>>

\* what the link manager's steps leave alone in the orchestrator
OrchestratorKept ==
  /\ UNCHANGED <<arrived, handlers, sensorData, prediction, mlHistory, storedReadings,
                 storedPredictions, storedEpisodes, lastPredict, mockTimers,
                 predictionIntervalRef, synthetic, storeLog>>
  /\ UNCHANGED <<condVars, appVars>>

\* the probe response, with the connection callback of a successful connect()
StatusProbeResponse(outcome) ==
  /\ ProbeResponseBody(outcome)
  /\ UNCHANGED <<phase, pollingRate, maxConsecutiveFailures, inflight, failRun>>
  /\ HandleConnectionChange
  /\ OrchestratorKept

\* a poll ends without a reading, with the connection callback of a forced
\* disconnect
StatusFetchComplete(target, outcome) ==
  /\ inflight[target] > 0
  /\ target = NoIP => outcome = "fail"
  /\ inflight' = [inflight EXCEPT ![target] = @ - 1]
  /\ IF outcome = "unparsed" THEN PollUnparsed ELSE HandlePollingError
  /\ UNCHANGED <<phase, pollingRate, maxConsecutiveFailures, connPc, probeTarget,
                 probed>>
  /\ HandleConnectionChange
  /\ OrchestratorKept

StatusNext ==
  \/ Initialize
  \/ SetCallbacks
  \/ \E ip \in Addrs : ConnectCall(ip)
  \/ ConfigSaved
  \/ \E o \in ProbeOutcomes : StatusProbeResponse(o)
  \/ \E t \in TimerIds : TimerFire(t)
  \/ \E tg \in Targets, o \in {"unparsed", "fail"} : StatusFetchComplete(tg, o)
  \/ DisconnectDevice
  \/ StartMockDataStream
  \/ StopMockDataStream

StatusSpec == Init /\ [][StatusNext]_vars

\* C40: with no mock interval running, the orchestrator's isConnected equals
\* the link manager's isConnected, after any sequence of connect, disconnect,
\* forced disconnect, startMockDataStream and stopMockDataStream.
C40_StatusAgrees ==
  mockTimers = {} => ctxIsConnected = isConnected

====
